---- MODULE Spec2Model ----
(***************************************************************************)
(* A model of the local forward proxy of src/proxy_server.py (ProxyConfig, *)
(* TCPHandler, UDPHandler, ProxyServer) and of its caller in src/main.py.  *)
(*                                                                         *)
(* Byte strings are sequences of integers 0..255, so that split, lower,    *)
(* startswith, endswith, `in' and base64 are computed as the code computes *)
(* them.  These specifications share the module:                          *)
(*   SpecRewrite  the header rewrite of handle_connect / handle_http on    *)
(*                request buffers drawn from a bounded set;                *)
(*   SpecRelay    one TCPHandler from its first read to cleanup, with the  *)
(*                bytes of both directions;                                *)
(*   Spec         one ProxyServer: start(), the accept thread, stop(), the *)
(*                UDP thread and the TCPHandler threads it spawns;         *)
(*   SpecFlag     Spec with a caller that also calls is_running();         *)
(*   SpecUdp      the same server with UDP clients: start(), stop(), the   *)
(*                UDP receive loop, its sessions, their responders and the *)
(*                datagrams of both directions;                            *)
(*   SpecStart    parse_proxy_line and start_proxies of src/main.py on     *)
(*                text boxes drawn from bounded sets of lines;             *)
(*   SpecLive, SpecUdpLive   Spec and SpecUdp with the fairness of threads *)
(*                that the scheduler keeps running.                        *)
(***************************************************************************)
EXTENDS Integers, Sequences, FiniteSets, TLC

VARIABLES
    \* ---- SpecRewrite
    rw_pc,          \* "input" | "sent" | "error"
    rw_cfg,         \* the ProxyConfig of the handler
    rw_data,        \* initial_data, the first buffer read from the client
    rw_mode,        \* "none" | "connect" | "http": the branch run() took
    rw_sent,        \* new_request as given to upstream.sendall
    \* ---- SpecRelay: one TCPHandler
    r_pc,           \* where run() stands
    r_running,      \* TCPHandler.running
    r_data,         \* initial_data
    r_resp,         \* response, the one chunk read from upstream (<<-1>>: not read)
    r_client,       \* client_socket: "open" | "closed"
    r_upstream,     \* upstream: "none" | "open" | "closed"
    r_todo,         \* readable, the sockets select() returned, still to serve
    r_hold,         \* data, read from a socket and not yet given to sendall
    r_pumped,       \* bidirectional_forward was entered
    r_exit,         \* why run() left: "none" while it has not
    r_log,          \* the kinds of message given to log()
    c_wr,           \* bytes the client wrote after its request
    c_in,           \* bytes from the client waiting in the relay's socket
    c_eof,          \* the client closed its end
    c_got,          \* every byte the client received, in order
    u_wr,           \* bytes the upstream wrote after its response
    u_in,           \* bytes from the upstream waiting in the relay's socket
    u_eof,          \* the upstream closed its end
    u_got,          \* every byte the upstream received, in order
    \* ---- Spec: one ProxyServer, its caller and its threads
    ui_pc,          \* the caller in main.py: start_proxies / stop_proxies
    ui_read,        \* <<b>>: is_running() last returned b to the caller; <<>>: no call
    running,        \* ProxyServer.running
    tcp_socket,     \* ProxyServer.tcp_socket: "none" (None) or the socket's state
    handlers,       \* ProxyServer.handlers, the list the accept loop appends to
    acc_pc,         \* where run_tcp_server stands
    acc_exit,       \* why run_tcp_server ended: "none" while it has not
    accepted,       \* connections accept() has returned
    udp_pc,         \* where UDPHandler.run stands
    udp_running,    \* UDPHandler.running
    udp_socket,     \* UDPHandler.udp_socket: "none" | "open" | "closed"
    h_pc,           \* per TCPHandler: where run() stands ("unborn": not created)
    h_running,      \* per TCPHandler: TCPHandler.running
    h_client,       \* per TCPHandler: client_socket "none" | "open" | "closed"
    h_upstream,     \* per TCPHandler: upstream "none" | "open" | "closed"
    h_exit,         \* per TCPHandler: why run() ended
    h_opened,       \* per TCPHandler: upstream connections it has opened
    \* ---- the sessions of the UDPHandler
    map_keys,       \* client_mapping: its keys (client addresses) in insertion order
    up_sock,        \* per client address: its upstream socket "none" | "open" | "closed"
    rcv_pc,         \* per client address: receive_upstream "unborn" | "loop" | "done"
    udp_cur,        \* client_addr of the datagram in handle_udp_packet (0: none)
    it_used,        \* stop()'s iterator over client_mapping.values(): size at creation
    it_pos,         \* ... and the number of values it has yielded
    udp_created,    \* upstream UDP sockets created so far
    udp_tasks,      \* receive_upstream threads started so far
    udp_seen,       \* client addresses whose datagrams reached handle_udp_packet
    udp_handled,    \* datagrams that went through handle_udp_packet
    udp_data,       \* data of the datagram in handle_udp_packet
    up_sent,        \* the sendto calls made on upstream sockets: socket, data, target
    up_wait,        \* per session socket: datagrams from the upstream waiting in it
    cli_got,        \* the sendto calls made on the shared socket: target, data
    \* ---- SpecStart: parse_proxy_line and start_proxies of src/main.py
    sp_pc,          \* "input" | "parsed" | "loop" | "done" | "rejected"
    sp_text,        \* the lines of the proxy text box (proxy_text.split('\n'))
    sp_orig,        \* the four values the first line was written from, if it was
    sp_entry,       \* the integer in the starting-port entry
    sp_out,         \* what parse_proxy_line returned for the first line
    sp_lines,       \* proxy_lines
    sp_i,           \* lines of proxy_lines the loop has gone through
    sp_port,        \* current_port
    sp_servers,     \* proxy_servers: the line and local port of each ProxyServer
    sp_created,     \* ProxyServer objects constructed so far
    sp_success      \* success_count

vars_rw == <<rw_pc, rw_cfg, rw_data, rw_mode, rw_sent>>

vars_relay == <<r_pc, r_running, r_data, r_resp, r_client, r_upstream, r_todo, r_hold,
                r_pumped, r_exit, r_log, c_wr, c_in, c_eof, c_got, u_wr, u_in, u_eof,
                u_got>>

\* the session state of the UDPHandler
vars_sess == <<map_keys, up_sock, rcv_pc, udp_cur, it_used, it_pos, udp_created,
               udp_tasks, udp_seen, udp_handled, udp_data, up_sent, up_wait, cli_got>>

vars_srv == <<ui_pc, ui_read, running, tcp_socket, handlers, acc_pc, acc_exit, accepted,
              udp_pc, udp_running, udp_socket, h_pc, h_running, h_client, h_upstream,
              h_exit, h_opened, vars_sess>>

vars_sp == <<sp_pc, sp_text, sp_orig, sp_entry, sp_out, sp_lines, sp_i, sp_port,
            sp_servers, sp_created, sp_success>>

vars == <<vars_rw, vars_relay, vars_srv, vars_sp>>

\* a step of one specification leaves the state of the others alone
RewriteOnly == UNCHANGED <<vars_relay, vars_srv, vars_sp>>

RelayOnly == UNCHANGED <<vars_rw, vars_srv, vars_sp>>

\* ... and only is_running writes what the caller has read
ServerOnly == UNCHANGED <<vars_rw, vars_relay, vars_sp, ui_read>>

StartOnly == UNCHANGED <<vars_rw, vars_relay, vars_srv>>

(***************************************************************************)
(* Bounds of the model.                                                    *)
(***************************************************************************)
\* lines that follow the request line in a drawn request buffer
MaxLines == 4
\* bytes each peer writes into an established tunnel
MaxPayload == 2
\* client connections that arrive at the server's port
NumClients == 2
\* client addresses that send datagrams to the server's UDP port
NumAddrs == 2
\* datagrams the UDP clients send in all
MaxDatagrams == 3
\* fields of a drawn proxy line
MaxFields == 5
\* lines of a text box that holds several upstreams
MaxText == 3

(***************************************************************************)
(* Byte-string literals of the source (ASCII codes).                       *)
(***************************************************************************)
\* b'\r\n'
CRLF == <<13,10>>
\* b'proxy-authorization'
PROXY_AUTH_PREFIX == <<112,114,111,120,121,45,97,117,116,104,111,114,105,122,97,116,105,111,110>>
\* "Proxy-Authorization: "
AUTH_HEADER_NAME == <<80,114,111,120,121,45,65,117,116,104,111,114,105,122,97,116,105,111,110,58,32>>
\* "Basic "
BASIC == <<66,97,115,105,99,32>>
\* 'CONNECT'
CONNECT_TOKEN == <<67,79,78,78,69,67,84>>
\* b'200'
STATUS_200 == <<50,48,48>>
\* b'HTTP/1.1 200 Connection Established\r\n\r\n'
ESTABLISHED == <<72,84,84,80,47,49,46,49,32,50,48,48,32,67,111,110,110,101,99,116,105,111,110,32,69,115,116,97,98,108,105,115,104,101,100,13,10,13,10>>

(***************************************************************************)
(* bytes / str methods the code uses.                                      *)
(***************************************************************************)
Min(a, b) == IF a <= b THEN a ELSE b

\* bytes.startswith
StartsWith(s, p) == Len(s) >= Len(p) /\ SubSeq(s, 1, Len(p)) = p

\* bytes.endswith
EndsWith(s, p) == Len(s) >= Len(p) /\ SubSeq(s, Len(s) - Len(p) + 1, Len(s)) = p

\* bytes.lower: only A-Z change
Lower(s) == [i \in 1..Len(s) |-> IF s[i] >= 65 /\ s[i] <= 90 THEN s[i] + 32 ELSE s[i]]

\* sub in s
Contains(s, sub) ==
    \E i \in 1..(Len(s) - Len(sub) + 1) : SubSeq(s, i, i + Len(sub) - 1) = sub

\* the positions at which b'\r\n' starts in s
CrlfAt(s) == {i \in 1..(Len(s) - 1) : s[i] = 13 /\ s[i+1] = 10}

RECURSIVE Split(_)
\* s.split(b'\r\n'): left to right, never an empty list
Split(s) ==
    IF CrlfAt(s) = {} THEN <<s>>
    ELSE LET i == CHOOSE k \in CrlfAt(s) : \A j \in CrlfAt(s) : k <= j
         IN  <<SubSeq(s, 1, i - 1)>> \o Split(SubSeq(s, i + 2, Len(s)))

RECURSIVE Join(_)
\* b'\r\n'.join(ls), the inverse of Split: how the request buffers are drawn
Join(ls) ==
    IF Len(ls) = 0 THEN <<>>
    ELSE IF Len(ls) = 1 THEN ls[1]
    ELSE ls[1] \o CRLF \o Join(Tail(ls))

\* bytes.decode('utf-8') raises on a byte that is no UTF-8 (the model's buffers
\* hold ASCII and the byte 0xFF, which no UTF-8 sequence contains)
Utf8Valid(s) == \A i \in 1..Len(s) : s[i] < 128

\* bytes.decode('utf-8', errors='ignore'): the undecodable bytes are dropped
DecodeIgnore(s) == SelectSeq(s, LAMBDA b : b < 128)

(***************************************************************************)
(* ProxyConfig                                                             *)
(***************************************************************************)
\* the base64 alphabet A-Z a-z 0-9 + /
B64Char(i) ==
    IF i < 26 THEN 65 + i
    ELSE IF i < 52 THEN 97 + (i - 26)
    ELSE IF i < 62 THEN 48 + (i - 52)
    ELSE IF i = 62 THEN 43 ELSE 47

RECURSIVE b64encode(_)
\* base64.b64encode: three bytes to four characters, '=' padding
b64encode(b) ==
    IF Len(b) = 0 THEN <<>>
    ELSE IF Len(b) = 1 THEN
        <<B64Char(b[1] \div 4), B64Char((b[1] % 4) * 16), 61, 61>>
    ELSE IF Len(b) = 2 THEN
        <<B64Char(b[1] \div 4), B64Char((b[1] % 4) * 16 + (b[2] \div 16)),
          B64Char((b[2] % 16) * 4), 61>>
    ELSE
        <<B64Char(b[1] \div 4), B64Char((b[1] % 4) * 16 + (b[2] \div 16)),
          B64Char((b[2] % 16) * 4 + (b[3] \div 64)), B64Char(b[3] % 64)>>
        \o b64encode(SubSeq(b, 4, Len(b)))

\* ProxyConfig.get_auth_header: "Basic " + base64(username + ":" + password)
get_auth_header(cfg) == BASIC \o b64encode(cfg.username \o <<58>> \o cfg.password)

\* the credentials the handlers are constructed with
Configs ==
    { [host |-> <<104>>, port |-> 8080, username |-> <<117>>, password |-> <<112>>],
      [host |-> <<104>>, port |-> 8080, username |-> <<117,115,101,114>>,
       password |-> <<112,58,113>>] }

(***************************************************************************)
(* The header rewrite                                                      *)
(***************************************************************************)
\* auth_header of handle_connect and handle_http (an f-string ending in \r\n)
auth_header(cfg) == AUTH_HEADER_NAME \o get_auth_header(cfg) \o CRLF

RECURSIVE KeptConnect(_)
\* the loop of handle_connect over lines[1:]: a line is appended when it is not
\* empty and its lower case does not start with b'proxy-authorization'
KeptConnect(ls) ==
    IF Len(ls) = 0 THEN <<>>
    ELSE (IF ls[1] # <<>> /\ ~StartsWith(Lower(ls[1]), PROXY_AUTH_PREFIX)
          THEN ls[1] \o CRLF ELSE <<>>) \o KeptConnect(Tail(ls))

RECURSIVE KeptHttp(_)
\* the loop of handle_http over lines[1:]: empty lines are appended too
KeptHttp(ls) ==
    IF Len(ls) = 0 THEN <<>>
    ELSE (IF ~StartsWith(Lower(ls[1]), PROXY_AUTH_PREFIX)
          THEN ls[1] \o CRLF ELSE <<>>) \o KeptHttp(Tail(ls))

\* new_request of handle_connect, terminator repair included
new_request_connect(initial_data, cfg) ==
    LET lines == Split(initial_data)
        body  == lines[1] \o CRLF \o auth_header(cfg) \o KeptConnect(Tail(lines))
    IN  IF EndsWith(body, CRLF \o CRLF) THEN body ELSE body \o CRLF

\* new_request of handle_http
new_request_http(initial_data, cfg) ==
    LET lines == Split(initial_data)
    IN  lines[1] \o CRLF \o auth_header(cfg) \o KeptHttp(Tail(lines))

\* run(): the request line decoded with errors='ignore' starts with 'CONNECT'
IsConnect(initial_data) ==
    StartsWith(DecodeIgnore(Split(initial_data)[1]), CONNECT_TOKEN)

(***************************************************************************)
(* SpecRewrite: request buffers and the rewrite applied to them            *)
(***************************************************************************)
\* CONNECT h:443 HTTP/1.1
ReqConnect == <<67,79,78,78,69,67,84,32,104,58,52,52,51,32,72,84,84,80,47,49,46,49>>
\* GET http://h/ HTTP/1.1
ReqGet == <<71,69,84,32,104,116,116,112,58,47,47,104,47,32,72,84,84,80,47,49,46,49>>
\* CONNECT <0xFF> HTTP/1.1
ReqBad == <<67,79,78,78,69,67,84,32,255,32,72,84,84,80,47,49,46,49>>
\* Host: h
HdrHost == <<72,111,115,116,58,32,104>>
\* Proxy-Authorization: o
HdrAuthMixed == <<80,114,111,120,121,45,65,117,116,104,111,114,105,122,97,116,105,111,110,58,32,111>>
\* PROXY-AUTHORIZATION: x
HdrAuthUpper == <<80,82,79,88,89,45,65,85,84,72,79,82,73,90,65,84,73,79,78,58,32,120>>
\* Proxy-Authorization-Info: n   (another header, whose name starts alike)
HdrAuthInfo == <<80,114,111,120,121,45,65,117,116,104,111,114,105,122,97,116,105,111,110,45,73,110,102,111,58,32,110>>

\* the lines a drawn buffer is made of; the empty line gives the terminator
LineAlphabet == {<<>>, HdrHost, HdrAuthMixed, HdrAuthUpper, HdrAuthInfo}

LineSeqs == UNION {[1..n -> LineAlphabet] : n \in 0..MaxLines}

\* what the first recv can return: a request line, then up to MaxLines lines
RequestBuffers ==
    {Join(<<r>> \o ls) : r \in {ReqConnect, ReqGet, ReqBad}, ls \in LineSeqs}

RwInit ==
    /\ rw_pc = "input"
    /\ rw_cfg \in Configs
    /\ rw_data \in RequestBuffers
    /\ rw_mode = "none"
    /\ rw_sent = <<>>

\* run() 91-94 and handle_connect 107-126
RwHandleConnect ==
    /\ rw_pc = "input"
    /\ IsConnect(rw_data)
    /\ Utf8Valid(Split(rw_data)[1])
    /\ rw_pc' = "sent"
    /\ rw_mode' = "connect"
    /\ rw_sent' = new_request_connect(rw_data, rw_cfg)
    /\ UNCHANGED <<rw_cfg, rw_data>>
    /\ RewriteOnly

\* handle_connect 108: lines[0].decode('utf-8') raises, nothing is sent
RwConnectError ==
    /\ rw_pc = "input"
    /\ IsConnect(rw_data)
    /\ ~Utf8Valid(Split(rw_data)[1])
    /\ rw_pc' = "error"
    /\ rw_mode' = "connect"
    /\ UNCHANGED <<rw_cfg, rw_data, rw_sent>>
    /\ RewriteOnly

\* run() 95-96 and handle_http 149-160
RwHandleHttp ==
    /\ rw_pc = "input"
    /\ ~IsConnect(rw_data)
    /\ rw_pc' = "sent"
    /\ rw_mode' = "http"
    /\ rw_sent' = new_request_http(rw_data, rw_cfg)
    /\ UNCHANGED <<rw_cfg, rw_data>>
    /\ RewriteOnly

(***************************************************************************)
(* Reading a request as its receiver does: the header section is the lines *)
(* after the request line up to the first empty line; a header's name is   *)
(* what precedes its first colon, compared without regard to case.         *)
(***************************************************************************)
RECURSIVE UpToBlank(_)
UpToBlank(ls) ==
    IF Len(ls) = 0 \/ ls[1] = <<>> THEN <<>> ELSE <<ls[1]>> \o UpToBlank(Tail(ls))

HeaderLines(data) == UpToBlank(Tail(Split(data)))

HeaderName(line) ==
    LET colons == {i \in 1..Len(line) : line[i] = 58}
    IN  IF colons = {} THEN line
        ELSE SubSeq(line, 1, (CHOOSE k \in colons : \A j \in colons : k <= j) - 1)

IsProxyAuthorization(line) == Lower(HeaderName(line)) = PROXY_AUTH_PREFIX

IsOtherHeader(line) == ~IsProxyAuthorization(line)

RECURSIVE IsSubseq(_, _)
\* a is b with some elements left out
IsSubseq(a, b) ==
    IF Len(a) = 0 THEN TRUE
    ELSE IF Len(b) = 0 THEN FALSE
    ELSE IF a[1] = b[1] THEN IsSubseq(Tail(a), Tail(b))
    ELSE IsSubseq(a, Tail(b))

\* C1: the request handle_connect sends upstream holds exactly one
\* Proxy-Authorization header, whose value is get_auth_header() of the
\* credential, and every other header line of the client's request appears in
\* it, in the original order.
C1_ConnectRewrite ==
    (rw_pc = "sent" /\ rw_mode = "connect") =>
        LET hin  == HeaderLines(rw_data)
            hout == HeaderLines(rw_sent)
        IN  /\ Len(SelectSeq(hout, IsProxyAuthorization)) = 1
            /\ \A i \in 1..Len(hout) :
                  IsProxyAuthorization(hout[i]) =>
                      hout[i] = AUTH_HEADER_NAME \o get_auth_header(rw_cfg)
            /\ IsSubseq(SelectSeq(hin, IsOtherHeader), SelectSeq(hout, IsOtherHeader))


\* the bytes of a request that follow its request line and the CRLF ending it
AfterRequestLine(req) == SubSeq(req, Len(Split(req)[1]) + 3, Len(req))

\* what the handler of the given mode builds from a buffer
Rewritten(mode, data, cfg) ==
    IF mode = "connect" THEN new_request_connect(data, cfg)
    ELSE new_request_http(data, cfg)

OtherMode(mode) == IF mode = "connect" THEN "http" ELSE "connect"

\* C18: for the same buffer, what follows the request line in the bytes sent
\* upstream is the same whichever of handle_connect and handle_http built
\* them: same lines kept, same place of the inserted header, same terminator.
C18_SameRewrite ==
    rw_pc = "sent" =>
        AfterRequestLine(rw_sent)
            = AfterRequestLine(Rewritten(OtherMode(rw_mode), rw_data, rw_cfg))

\* C19: in each mode the rewrite applied to the bytes it produced gives those
\* bytes again.
C19_Idempotent ==
    rw_pc = "sent" => Rewritten(rw_mode, rw_sent, rw_cfg) = rw_sent

\* the first position at which the blank-line terminator starts, 0 if none
TerminatorAt(data) ==
    LET ts == {i \in CrlfAt(data) : i + 2 \in CrlfAt(data)}
    IN  IF ts = {} THEN 0 ELSE CHOOSE k \in ts : \A j \in ts : k <= j

RECURSIVE Lines(_)
\* every line followed by CRLF
Lines(ls) == IF Len(ls) = 0 THEN <<>> ELSE ls[1] \o CRLF \o Lines(Tail(ls))

\* the request line, the inserted header, the other header lines as they
\* were, the blank line once, and the bytes after it as they were
OnlyAuthorizationChanged(data, cfg) ==
    LET t    == TerminatorAt(data)
        head == Split(SubSeq(data, 1, t - 1))
        rest == SubSeq(data, t + 4, Len(data))
    IN  head[1] \o CRLF \o AUTH_HEADER_NAME \o get_auth_header(cfg) \o CRLF
        \o Lines(SelectSeq(Tail(head), IsOtherHeader)) \o CRLF \o rest

\* C20: for a buffer holding a complete header section, the bytes sent
\* upstream are the request line, the one inserted Proxy-Authorization line,
\* every other header line unchanged and in order (a header whose name only
\* begins with proxy-authorization included), the blank line exactly once, and
\* the bytes that followed it, byte for byte.
C20_OnlyAuthorizationChanged ==
    (rw_pc = "sent" /\ TerminatorAt(rw_data) # 0) =>
        rw_sent = OnlyAuthorizationChanged(rw_data, rw_cfg)

RwNext == RwHandleConnect \/ RwConnectError \/ RwHandleHttp

(***************************************************************************)
(* SpecRelay: one TCPHandler, from the first read to cleanup               *)
(***************************************************************************)
\* TCPHandler.BUFFER_SIZE
BUFFER_SIZE == 65536

\* the credential this handler was constructed with
RelayCfg == [host |-> <<104>>, port |-> 8080, username |-> <<117>>, password |-> <<112>>]

\* HTTP/1.1 200 OK
Resp200 == <<72,84,84,80,47,49,46,49,32,50,48,48,32,79,75,13,10,13,10>>
\* HTTP/1.1 200 OK, and the first tunnelled bytes in the same segment
Resp200Extra == <<72,84,84,80,47,49,46,49,32,50,48,48,32,79,75,13,10,13,10,84,76,83>>
\* HTTP/1.1 407 Auth
Resp407 == <<72,84,84,80,47,49,46,49,32,52,48,55,32,65,117,116,104,13,10,13,10>>
\* HTTP/1.1 502 Bad, with 200 in a later line
Resp502 == <<72,84,84,80,47,49,46,49,32,53,48,50,32,66,97,100,13,10,88,58,32,50,48,48,13,10,13,10>>
\* HTTP/1.1 407 id2001: a 407 whose status line holds the bytes 200
Resp407Id == <<72,84,84,80,47,49,46,49,32,52,48,55,32,105,100,50,48,48,49,13,10,13,10>>

\* what upstream.recv can return after the CONNECT: a response, or b'' when the
\* upstream closed without answering
Responses == {Resp200, Resp200Extra, Resp407, Resp502, Resp407Id, <<>>}

\* no chunk read yet
NoResp == <<-1>>

\* what the first client_socket.recv can return
RelayInputs ==
    { <<>>,
      Join(<<ReqConnect, HdrHost, <<>>, <<>>>>),
      Join(<<ReqGet, HdrHost, HdrAuthMixed, <<>>, <<>>>>),
      Join(<<ReqBad, <<>>, <<>>>>) }

\* the bytes the client / the upstream write into the tunnel, in order
ClientPayload == [i \in 1..MaxPayload |-> i]
UpstreamPayload == [i \in 1..MaxPayload |-> 128 + i]

\* a slip in the test: b'200' looked for in the whole response
Has200Anywhere(response) == Contains(response, STATUS_200)

\* handle_connect 131: b'200' in response.split(b'\r\n')[0]
Has200(response) == Contains(Split(response)[1], STATUS_200)

RelayInit ==
    /\ r_pc = "recv"
    /\ r_running = TRUE
    /\ r_data \in RelayInputs
    /\ r_resp = NoResp
    /\ r_client = "open"
    /\ r_upstream = "none"
    /\ r_todo = <<>>
    /\ r_hold = <<>>
    /\ r_pumped = FALSE
    /\ r_exit = "none"
    /\ r_log = {}
    /\ c_wr = 0 /\ c_in = <<>> /\ c_eof = FALSE /\ c_got = <<>>
    /\ u_wr = 0 /\ u_in = <<>> /\ u_eof = FALSE /\ u_got = <<>>

\* leaving run() through `finally': cleanup() is the next step
Leave(why) == r_pc' = "cleanup" /\ r_exit' = why

\* a slip in the test: the empty read is taken for a request
never_empty(initial_data) == FALSE

\* run() 82: `not initial_data'
empty_read(initial_data) == initial_data = <<>>

\* run() 79-83: the first recv returned; b'' ends the relay at once
run_recv ==
    /\ r_pc = "recv"
    /\ IF empty_read(r_data)
       THEN Leave("empty")
       ELSE r_pc' = "connect" /\ UNCHANGED r_exit
    /\ UNCHANGED <<r_running, r_data, r_resp, r_client, r_upstream, r_todo, r_hold,
                   r_pumped, r_log, c_wr, c_in, c_eof, c_got, u_wr, u_in, u_eof, u_got>>
    /\ RelayOnly

\* run() 80, 98-99: the first recv raised (30 s timeout, reset)
run_recv_error ==
    /\ r_pc = "recv"
    /\ r_data # <<>>
    /\ Leave("error")
    /\ r_log' = r_log \cup {"Error handling connection"}
    /\ UNCHANGED <<r_running, r_data, r_resp, r_client, r_upstream, r_todo, r_hold,
                   r_pumped, c_wr, c_in, c_eof, c_got, u_wr, u_in, u_eof, u_got>>
    /\ RelayOnly

\* connect_to_upstream 52-61 and run() 86-88
connect_to_upstream ==
    /\ r_pc = "connect"
    /\ \/ /\ r_upstream' = "open"
          /\ r_pc' = "dispatch"
          /\ UNCHANGED <<r_exit, r_log>>
       \/ /\ Leave("connect_failed")
          /\ r_log' = r_log \cup {"Failed to connect to upstream proxy"}
          /\ UNCHANGED r_upstream
    /\ UNCHANGED <<r_running, r_data, r_resp, r_client, r_todo, r_hold, r_pumped,
                   c_wr, c_in, c_eof, c_got, u_wr, u_in, u_eof, u_got>>
    /\ RelayOnly

\* run() 91-94, handle_connect 105-126: the rewritten CONNECT goes upstream;
\* an undecodable request line or a failed sendall is logged by handle_connect
handle_connect_send ==
    /\ r_pc = "dispatch"
    /\ IsConnect(r_data)
    /\ \/ /\ Utf8Valid(Split(r_data)[1])
          /\ u_got' = u_got \o new_request_connect(r_data, RelayCfg)
          /\ r_pc' = "hc_recv"
          /\ UNCHANGED <<r_exit, r_log>>
       \/ /\ Leave("error")
          /\ r_log' = r_log \cup {"CONNECT error"}
          /\ UNCHANGED u_got
    /\ UNCHANGED <<r_running, r_data, r_resp, r_client, r_upstream, r_todo, r_hold,
                   r_pumped, c_wr, c_in, c_eof, c_got, u_wr, u_in, u_eof>>
    /\ RelayOnly

\* handle_connect 129: one chunk from upstream, or recv raises
handle_connect_recv ==
    /\ r_pc = "hc_recv"
    /\ \/ /\ \E resp \in Responses : r_resp' = resp
          /\ r_pc' = "hc_reply"
          /\ UNCHANGED <<r_exit, r_log>>
       \/ /\ Leave("error")
          /\ r_log' = r_log \cup {"CONNECT error"}
          /\ UNCHANGED r_resp
    /\ UNCHANGED <<r_running, r_data, r_client, r_upstream, r_todo, r_hold, r_pumped,
                   c_wr, c_in, c_eof, c_got, u_wr, u_in, u_eof, u_got>>
    /\ RelayOnly

\* what a forwarding slip would send on a 200: the upstream's own bytes
raw_reply(response) == response

\* handle_connect 133: what the client is sent on a 200, whatever the response
established_reply(response) == ESTABLISHED

\* handle_connect 131-137: a 200 is answered with the literal and the pump starts
handle_connect_established ==
    /\ r_pc = "hc_reply"
    /\ Has200(r_resp)
    /\ \/ /\ c_got' = c_got \o established_reply(r_resp)
          /\ r_log' = r_log \cup {"CONNECT tunnel established"}
          /\ r_pumped' = TRUE
          /\ r_pc' = "pump"
          /\ UNCHANGED r_exit
       \/ /\ Leave("error")
          /\ r_log' = r_log \cup {"CONNECT error"}
          /\ UNCHANGED <<c_got, r_pumped>>
    /\ UNCHANGED <<r_running, r_data, r_resp, r_client, r_upstream, r_todo, r_hold,
                   c_wr, c_in, c_eof, u_wr, u_in, u_eof, u_got>>
    /\ RelayOnly

\* handle_connect 138-140: any other response goes to the client as it is
handle_connect_failed ==
    /\ r_pc = "hc_reply"
    /\ ~Has200(r_resp)
    /\ \/ /\ c_got' = c_got \o r_resp
          /\ Leave("non200")
          /\ r_log' = r_log \cup {"CONNECT failed"}
       \/ /\ Leave("error")
          /\ r_log' = r_log \cup {"CONNECT error"}
          /\ UNCHANGED c_got
    /\ UNCHANGED <<r_running, r_data, r_resp, r_client, r_upstream, r_todo, r_hold,
                   r_pumped, c_wr, c_in, c_eof, u_wr, u_in, u_eof, u_got>>
    /\ RelayOnly

\* run() 95-96, handle_http 147-165: the rewritten request goes upstream and the
\* pump starts
handle_http ==
    /\ r_pc = "dispatch"
    /\ ~IsConnect(r_data)
    /\ \/ /\ u_got' = u_got \o new_request_http(r_data, RelayCfg)
          /\ r_log' = r_log \cup {"HTTP request forwarded"}
          /\ r_pumped' = TRUE
          /\ r_pc' = "pump"
          /\ UNCHANGED r_exit
       \/ /\ Leave("error")
          /\ r_log' = r_log \cup {"HTTP error"}
          /\ UNCHANGED <<u_got, r_pumped>>
    /\ UNCHANGED <<r_running, r_data, r_resp, r_client, r_upstream, r_todo, r_hold,
                   c_wr, c_in, c_eof, c_got, u_wr, u_in, u_eof>>
    /\ RelayOnly

\* select() reports a socket readable when bytes wait in it or its peer closed
Readable ==
    (IF c_in # <<>> \/ c_eof THEN <<"client">> ELSE <<>>)
    \o (IF u_in # <<>> \/ u_eof THEN <<"upstream">> ELSE <<>>)

InPump == r_pc \in {"pump", "serve", "send"}

\* bidirectional_forward 175-183: the loop test and select(); with nothing
\* readable the 1 s timeout returns an empty list and the loop comes round
pump_select ==
    /\ r_pc = "pump"
    /\ IF ~r_running
       THEN Leave("shutdown") /\ UNCHANGED r_todo
       ELSE \/ Leave("exceptional") /\ UNCHANGED r_todo
            \/ /\ r_todo' = Readable
               /\ r_pc' = IF Readable = <<>> THEN "pump" ELSE "serve"
               /\ UNCHANGED r_exit
    /\ UNCHANGED <<r_running, r_data, r_resp, r_client, r_upstream, r_hold, r_pumped,
                   r_log, c_wr, c_in, c_eof, c_got, u_wr, u_in, u_eof, u_got>>
    /\ RelayOnly

\* bidirectional_forward 185-189, 195-196: recv on the next readable socket
\* returns up to BUFFER_SIZE waiting bytes, b'' after the peer closed, or raises
pump_recv ==
    /\ r_pc = "serve"
    /\ LET sock == Head(r_todo)
           buf  == IF sock = "client" THEN c_in ELSE u_in
       IN  \/ /\ buf # <<>>
              /\ \E k \in 1..Min(Len(buf), BUFFER_SIZE) :
                    /\ r_hold' = SubSeq(buf, 1, k)
                    /\ IF sock = "client"
                       THEN c_in' = SubSeq(buf, k + 1, Len(buf)) /\ UNCHANGED u_in
                       ELSE u_in' = SubSeq(buf, k + 1, Len(buf)) /\ UNCHANGED c_in
              /\ r_pc' = "send"
              /\ UNCHANGED r_exit
           \/ /\ buf = <<>>
              /\ Leave("peer_closed")
              /\ UNCHANGED <<r_hold, c_in, u_in>>
           \/ /\ Leave("io_error")
              /\ UNCHANGED <<r_hold, c_in, u_in>>
    /\ UNCHANGED <<r_running, r_data, r_resp, r_client, r_upstream, r_todo, r_pumped,
                   r_log, c_wr, c_eof, c_got, u_wr, u_eof, u_got>>
    /\ RelayOnly

\* what sendall does with `data' on the non-blocking destination socket
\* (setblocking(False), 172-173): "ok" writes it all; "would_block" is a peer
\* that is alive but has room for only n < len(data) bytes, where sendall
\* raises BlockingIOError after writing n; "reset" is a broken connection
SendOutcomes(data) ==
    {[kind |-> "ok", n |-> Len(data)]}
    \cup {[kind |-> "would_block", n |-> n] : n \in 0..(Len(data) - 1)}
    \cup {[kind |-> "reset", n |-> 0]}

\* bidirectional_forward 191-196: data goes to the other socket; any exception
\* of sendall is caught by the bare except, which returns
pump_send ==
    /\ r_pc = "send"
    /\ \E o \in SendOutcomes(r_hold) :
          /\ IF Head(r_todo) = "client"
             THEN u_got' = u_got \o SubSeq(r_hold, 1, o.n) /\ UNCHANGED c_got
             ELSE c_got' = c_got \o SubSeq(r_hold, 1, o.n) /\ UNCHANGED u_got
          /\ r_hold' = <<>>
          /\ IF o.kind = "ok"
             THEN /\ r_todo' = Tail(r_todo)
                  /\ r_pc' = IF Tail(r_todo) = <<>> THEN "pump" ELSE "serve"
                  /\ UNCHANGED r_exit
             ELSE /\ Leave(IF o.kind = "would_block" THEN "would_block" ELSE "io_error")
                  /\ UNCHANGED r_todo
    /\ UNCHANGED <<r_running, r_data, r_resp, r_client, r_upstream, r_pumped, r_log,
                   c_wr, c_in, c_eof, u_wr, u_in, u_eof>>
    /\ RelayOnly

\* a cleanup that closes the client socket and forgets the upstream
cleanup_client_only ==
    /\ r_pc = "cleanup"
    /\ r_client' = "closed"
    /\ r_pc' = "done"
    /\ UNCHANGED <<r_running, r_data, r_resp, r_upstream, r_todo, r_hold, r_pumped,
                   r_exit, r_log, c_wr, c_in, c_eof, c_got, u_wr, u_in, u_eof, u_got>>
    /\ RelayOnly

\* cleanup 201-211, from the finally of run()
cleanup ==
    /\ r_pc = "cleanup"
    /\ r_client' = "closed"
    /\ r_upstream' = IF r_upstream = "none" THEN "none" ELSE "closed"
    /\ r_pc' = "done"
    /\ UNCHANGED <<r_running, r_data, r_resp, r_todo, r_hold, r_pumped, r_exit, r_log,
                   c_wr, c_in, c_eof, c_got, u_wr, u_in, u_eof, u_got>>
    /\ RelayOnly

\* ProxyServer.stop 393-394 reaches this handler: handler.running = False
relay_marked ==
    /\ r_running
    /\ r_pc # "done"
    /\ r_running' = FALSE
    /\ UNCHANGED <<r_pc, r_data, r_resp, r_client, r_upstream, r_todo, r_hold,
                   r_pumped, r_exit, r_log, c_wr, c_in, c_eof, c_got, u_wr, u_in,
                   u_eof, u_got>>
    /\ RelayOnly

\* the peers of an established tunnel: each writes its payload byte by byte
\* and may close its end
client_write ==
    /\ InPump /\ ~c_eof /\ c_wr < MaxPayload
    /\ c_wr' = c_wr + 1
    /\ c_in' = Append(c_in, ClientPayload[c_wr + 1])
    /\ UNCHANGED <<r_pc, r_running, r_data, r_resp, r_client, r_upstream, r_todo,
                   r_hold, r_pumped, r_exit, r_log, c_eof, c_got, u_wr, u_in, u_eof,
                   u_got>>
    /\ RelayOnly

client_close ==
    /\ InPump /\ ~c_eof
    /\ c_eof' = TRUE
    /\ UNCHANGED <<r_pc, r_running, r_data, r_resp, r_client, r_upstream, r_todo,
                   r_hold, r_pumped, r_exit, r_log, c_wr, c_in, c_got, u_wr, u_in,
                   u_eof, u_got>>
    /\ RelayOnly

upstream_write ==
    /\ InPump /\ ~u_eof /\ u_wr < MaxPayload
    /\ u_wr' = u_wr + 1
    /\ u_in' = Append(u_in, UpstreamPayload[u_wr + 1])
    /\ UNCHANGED <<r_pc, r_running, r_data, r_resp, r_client, r_upstream, r_todo,
                   r_hold, r_pumped, r_exit, r_log, c_wr, c_in, c_eof, c_got, u_eof,
                   u_got>>
    /\ RelayOnly

upstream_close ==
    /\ InPump /\ ~u_eof
    /\ u_eof' = TRUE
    /\ UNCHANGED <<r_pc, r_running, r_data, r_resp, r_client, r_upstream, r_todo,
                   r_hold, r_pumped, r_exit, r_log, c_wr, c_in, c_eof, c_got, u_wr,
                   u_in, u_got>>
    /\ RelayOnly

RelayNext ==
    \/ run_recv \/ run_recv_error \/ connect_to_upstream
    \/ handle_connect_send \/ handle_connect_recv
    \/ handle_connect_established \/ handle_connect_failed \/ handle_http
    \/ pump_select \/ pump_recv \/ pump_send \/ cleanup
    \/ relay_marked
    \/ client_write \/ client_close \/ upstream_write \/ upstream_close

(***************************************************************************)
(* Claims about one relay (SpecRelay)                                      *)
(***************************************************************************)
\* the first line of the chunk read from upstream, as the claims speak of it
StatusLine(response) == Split(response)[1]

IsPrefix(a, b) == Len(a) <= Len(b) /\ SubSeq(b, 1, Len(a)) = a

\* C2: in tunnel mode nothing reaches the client before the upstream's response
\* has been read, and when the first line of that response contains 200 the
\* client's bytes are the literal 'HTTP/1.1 200 Connection Established\r\n\r\n'
\* followed only by tunnelled bytes of the upstream, never the raw response.
C2_EstablishedFirst ==
    (r_pc # "off" /\ IsConnect(r_data)) =>
        /\ c_got # <<>> => r_resp # NoResp
        /\ (r_resp # NoResp /\ c_got # <<>>
                /\ Contains(StatusLine(r_resp), STATUS_200)) =>
              \E k \in 0..u_wr :
                  c_got = ESTABLISHED \o SubSeq(UpstreamPayload, 1, k)

\* C2's case: a 200 was read, the literal was sent and a tunnelled byte followed
C2_Witness ==
    /\ IsConnect(r_data)
    /\ r_resp = Resp200
    /\ c_got = ESTABLISHED \o SubSeq(UpstreamPayload, 1, 1)

\* C3: in tunnel mode, when the first line of the upstream's response does not
\* contain 200, the pump is never entered, the client is sent the response as
\* it was read and nothing else, and the relay goes straight to cleanup, which
\* leaves both sockets closed.
C3_Non200Verbatim ==
    (r_pc # "off" /\ IsConnect(r_data) /\ r_resp # NoResp
        /\ ~Contains(StatusLine(r_resp), STATUS_200)) =>
        /\ ~r_pumped
        /\ r_pc \in {"hc_reply", "cleanup", "done"}
        /\ c_got \in {<<>>, r_resp}
        /\ r_exit = "non200" => c_got = r_resp
        /\ r_exit \in {"none", "non200", "error"}
        /\ r_pc = "done" => (r_client = "closed" /\ r_upstream = "closed")

\* C3's case: a 407 was read, forwarded as it is, and the relay has ended
C3_Witness ==
    /\ IsConnect(r_data)
    /\ r_resp = Resp407
    /\ r_pc = "done"
    /\ r_exit = "non200"
    /\ c_got = Resp407

\* C21: when the first read from the client returns no bytes, the relay ends
\* for that reason alone: no upstream connection is opened, nothing is sent to
\* the client or the upstream, nothing is logged, the pump is not entered, and
\* once run() has ended the client socket is closed.
C21_EmptyReadNoOp ==
    (r_pc \notin {"off", "recv"} /\ r_data = <<>>) =>
        /\ r_exit = "empty"
        /\ r_pc \in {"cleanup", "done"}
        /\ r_upstream = "none"
        /\ u_got = <<>> /\ c_got = <<>>
        /\ r_log = {}
        /\ ~r_pumped
        /\ r_pc = "done" => r_client = "closed"

\* C21's case: the empty read ended the relay and cleanup has run
C21_Witness ==
    /\ r_data = <<>>
    /\ r_exit = "empty"
    /\ r_pc = "done"
    /\ r_client = "closed"

\* the reasons for which run() ends
ExitReasons == {"empty", "connect_failed", "non200", "peer_closed", "io_error",
                "would_block", "exceptional", "shutdown", "error"}

\* C26: whatever the reason run() ended for, once it has ended the client
\* socket is closed and the upstream socket is closed if one was opened; run()
\* never ends without a reason, and every way out leads to cleanup.
C26_SocketsReleased ==
    /\ [](r_pc = "done" =>
            /\ r_exit \in ExitReasons
            /\ r_client = "closed"
            /\ r_upstream \in {"none", "closed"}
            /\ r_upstream = "none" => r_exit \in {"empty", "error", "connect_failed"})
    /\ [][(r_exit = "none" /\ r_exit' # "none") =>
              (r_pc' = "cleanup" /\ r_exit' \in ExitReasons)]_vars

\* C26's case: the pump ended on an I/O error with both sockets open, and
\* cleanup has closed them
C26_Witness ==
    /\ r_pc = "done"
    /\ r_exit = "io_error"
    /\ r_pumped
    /\ r_client = "closed" /\ r_upstream = "closed"

\* the request this relay sent upstream before the pump
SentRequest ==
    IF IsConnect(r_data) THEN new_request_connect(r_data, RelayCfg)
    ELSE new_request_http(r_data, RelayCfg)

\* the bytes the pump delivered to the upstream / to the client
UpTunnel == SubSeq(u_got, Len(SentRequest) + 1, Len(u_got))

CliTunnel ==
    IF IsConnect(r_data) THEN SubSeq(c_got, Len(ESTABLISHED) + 1, Len(c_got))
    ELSE c_got

\* bytes read from `sock' that the relay still holds for sendall
HeldFrom(sock) == IF r_hold # <<>> /\ Head(r_todo) = sock THEN Len(r_hold) ELSE 0

\* C4: once the pump runs, what each side received is a prefix of what the
\* other wrote, and every byte the relay read from one socket is written to
\* the other in full - also when the destination takes only part of a chunk
\* at a time - unless a raised I/O error ended the relay.
C4_PumpLossless ==
    r_pumped =>
        /\ IsPrefix(UpTunnel, SubSeq(ClientPayload, 1, c_wr))
        /\ IsPrefix(CliTunnel, SubSeq(UpstreamPayload, 1, u_wr))
        /\ r_exit # "io_error" =>
              /\ c_wr - Len(c_in) = Len(UpTunnel) + HeldFrom("client")
              /\ u_wr - Len(u_in) = Len(CliTunnel) + HeldFrom("upstream")

\* the part of C4 the code keeps: order and content, whatever the chunking
C4_PrefixOnly ==
    r_pumped =>
        /\ IsPrefix(UpTunnel, SubSeq(ClientPayload, 1, c_wr))
        /\ IsPrefix(CliTunnel, SubSeq(UpstreamPayload, 1, u_wr))

\* what the upstream sent in its first chunk after the header of its response
AfterHeader(response) ==
    IF TerminatorAt(response) = 0 THEN <<>>
    ELSE SubSeq(response, TerminatorAt(response) + 4, Len(response))

\* C27: once the tunnel is established, what the client has received after
\* the 200 literal is the beginning of what the upstream sent after the header
\* of its 200 response: the bytes that came in the same read as the response,
\* then the bytes it wrote afterwards, in order.
C27_NoByteLostAtEstablishment ==
    (r_pc # "off" /\ IsConnect(r_data) /\ r_pumped) =>
        IsPrefix(CliTunnel, AfterHeader(r_resp) \o SubSeq(UpstreamPayload, 1, u_wr))

(***************************************************************************)
(* Spec: one ProxyServer constructed by start_proxies                      *)
(***************************************************************************)
H == 1..NumClients

\* the client addresses of the UDP side
Addrs == 1..NumAddrs

\* the bytes the client at address a sends, and the bytes the upstream sends
\* to the socket of that client's session
ClientDatagram(a) == <<64 + a>>
UpstreamDatagram(a) == <<128 + a>>

\* UDPHandler.__init__ 225-227: client_mapping = {}, nothing created yet
SessInit ==
    /\ map_keys = <<>>
    /\ up_sock = [a \in Addrs |-> "none"]
    /\ rcv_pc = [a \in Addrs |-> "unborn"]
    /\ udp_cur = 0
    /\ it_used = 0 /\ it_pos = 0
    /\ udp_created = 0 /\ udp_tasks = 0
    /\ udp_seen = {}
    /\ udp_handled = 0
    /\ udp_data = <<>>
    /\ up_sent = {}
    /\ up_wait = [a \in Addrs |-> <<>>]
    /\ cli_got = {}

SrvInit ==
    /\ ui_pc = "new"
    /\ ui_read = <<>>
    /\ running = FALSE
    /\ tcp_socket = "none"
    /\ handlers = <<>>
    /\ acc_pc = "idle" /\ acc_exit = "none" /\ accepted = 0
    /\ udp_pc = "idle" /\ udp_running = FALSE /\ udp_socket = "none"
    /\ SessInit
    /\ h_pc = [h \in H |-> "unborn"]
    /\ h_running = [h \in H |-> FALSE]
    /\ h_client = [h \in H |-> "none"]
    /\ h_upstream = [h \in H |-> "none"]
    /\ h_exit = [h \in H |-> "none"]
    /\ h_opened = [h \in H |-> 0]

\* the datagrams in hand and in flight
vars_dgram == <<udp_data, up_sent, up_wait, cli_got>>

\* the variables of the TCPHandler threads
vars_h == <<h_pc, h_running, h_client, h_upstream, h_exit, h_opened>>

\* the variables of the UDPHandler
vars_udp == <<udp_pc, udp_running, udp_socket, vars_sess>>

\* ProxyServer.start 339-351: the flag is set, the accept thread and the
\* UDPHandler (running = True from its constructor) are started; it returns
\* without waiting for either
start ==
    /\ ui_pc = "new"
    /\ running' = TRUE
    /\ acc_pc' = "socket"
    /\ udp_pc' = "bind" /\ udp_running' = TRUE
    /\ ui_pc' = "started"
    /\ UNCHANGED <<tcp_socket, handlers, acc_exit, accepted, udp_socket, vars_sess,
                   vars_h>>
    /\ ServerOnly

\* start_proxies 367-389: start() returned without raising, so the server is
\* appended to proxy_servers with the status "Running"
start_proxies_record ==
    /\ ui_pc = "started"
    /\ ui_pc' = "recorded"
    /\ UNCHANGED <<running, tcp_socket, handlers, acc_pc, acc_exit, accepted,
                   vars_udp, vars_h>>
    /\ ServerOnly

\* stop_proxies 414-416 calls stop(); stop 382: self.running = False
stop_flag ==
    /\ ui_pc = "recorded"
    /\ running' = FALSE
    /\ ui_pc' = "stop_close"
    /\ UNCHANGED <<tcp_socket, handlers, acc_pc, acc_exit, accepted, vars_udp, vars_h>>
    /\ ServerOnly

\* an is_running that resets the flag it reads
read_and_reset == running' = FALSE

\* is_running 398-399: the body is `return self.running', which assigns nothing
read_only == UNCHANGED running

\* the caller asks is_running() between its calls of start() and stop()
is_running ==
    /\ ui_pc \in {"new", "recorded", "stopped"}
    /\ ui_read' = <<running>>
    /\ read_only
    /\ UNCHANGED <<ui_pc, tcp_socket, handlers, acc_pc, acc_exit, accepted, vars_udp,
                   vars_h>>
    /\ UNCHANGED <<vars_rw, vars_relay, vars_sp>>

\* stop 384-388: the listening socket is closed when there is one
stop_close ==
    /\ ui_pc = "stop_close"
    /\ tcp_socket' = IF tcp_socket = "none" THEN "none" ELSE "closed"
    /\ ui_pc' = "stop_udp"
    /\ UNCHANGED <<running, handlers, acc_pc, acc_exit, accepted, vars_udp, vars_h>>
    /\ ServerOnly

\* UDPHandler.stop 306-311: the flag is cleared and the shared socket closed
udp_stop_effect ==
    /\ udp_running' = FALSE
    /\ udp_socket' = IF udp_socket = "none" THEN "none" ELSE "closed"

\* stop 390-391 into UDPHandler.stop 304-312: the flag, the shared socket, and
\* the iterator over client_mapping.values() is created
stop_udp ==
    /\ ui_pc = "stop_udp"
    /\ udp_stop_effect
    /\ it_used' = Len(map_keys)
    /\ it_pos' = 0
    /\ ui_pc' = "stop_udp_iter"
    /\ UNCHANGED <<running, tcp_socket, handlers, acc_pc, acc_exit, accepted, udp_pc,
                   map_keys, up_sock, rcv_pc, udp_cur, udp_created, udp_tasks,
                   udp_seen, udp_handled, vars_dgram, vars_h>>
    /\ ServerOnly

\* UDPHandler.stop 312-316: one round of `for sock in client_mapping.values()'.
\* The iterator first compares the size of the dict with the size it was
\* created on and raises RuntimeError when they differ; nothing between here
\* and stop_proxies (src/main.py 415-418) catches it, so ProxyServer.stop ends
\* there without reaching line 393.  Otherwise it yields the next socket,
\* which is closed, or is exhausted and UDPHandler.stop returns.
stop_udp_iter ==
    /\ ui_pc = "stop_udp_iter"
    /\ IF Len(map_keys) # it_used
       THEN /\ ui_pc' = "stop_raised"
            /\ UNCHANGED <<up_sock, it_pos>>
       ELSE IF it_pos < it_used
       THEN /\ up_sock' = [up_sock EXCEPT ![map_keys[it_pos + 1]] = "closed"]
            /\ it_pos' = it_pos + 1
            /\ UNCHANGED ui_pc
       ELSE /\ ui_pc' = "stop_mark"
            /\ UNCHANGED <<up_sock, it_pos>>
    /\ UNCHANGED <<running, tcp_socket, handlers, acc_pc, acc_exit, accepted, udp_pc,
                   udp_running, udp_socket, map_keys, rcv_pc, udp_cur, it_used,
                   udp_created, udp_tasks, udp_seen, udp_handled, vars_dgram, vars_h>>
    /\ ServerOnly

\* a stop that severs the tunnels: every handler's sockets are closed too
force_close ==
    /\ h_running' = [h \in H |-> h_running[h] /\ \A i \in 1..Len(handlers) : handlers[i] # h]
    /\ h_client' = [h \in H |-> IF h_client[h] = "open" THEN "closed" ELSE h_client[h]]
    /\ h_upstream' = [h \in H |-> IF h_upstream[h] = "open" THEN "closed" ELSE h_upstream[h]]

\* stop 393-394: handler.running = False for every handler in self.handlers
mark_handlers ==
    /\ h_running' = [h \in H |-> h_running[h] /\ \A i \in 1..Len(handlers) : handlers[i] # h]
    /\ UNCHANGED <<h_client, h_upstream>>

\* stop 393-396: the handlers are marked and stop() returns
stop_mark ==
    /\ ui_pc = "stop_mark"
    /\ mark_handlers
    /\ ui_pc' = "stopped"
    /\ UNCHANGED <<running, tcp_socket, handlers, acc_pc, acc_exit, accepted, vars_udp,
                   h_pc, h_exit, h_opened>>
    /\ ServerOnly

\* run_tcp_server ends: by an exception caught at 377, or by its loop test
AcceptEnds(why) == acc_pc' = "done" /\ acc_exit' = why

\* run_tcp_server 356: self.tcp_socket = socket.socket(...)
accept_socket ==
    /\ acc_pc = "socket"
    /\ tcp_socket' = "created"
    /\ acc_pc' = "bind"
    /\ UNCHANGED <<ui_pc, running, handlers, acc_exit, accepted, vars_udp, vars_h>>
    /\ ServerOnly

\* run_tcp_server 357-358: setsockopt and bind; on a closed socket both raise,
\* and bind raises when the port is taken; 377-378 only logs the exception
accept_bind ==
    /\ acc_pc = "bind"
    /\ IF tcp_socket = "closed"
       THEN AcceptEnds("socket_closed") /\ UNCHANGED tcp_socket
       ELSE \/ /\ tcp_socket' = "bound"
               /\ acc_pc' = "listen"
               /\ UNCHANGED acc_exit
            \/ /\ AcceptEnds("bind_failed")
               /\ UNCHANGED tcp_socket
    /\ UNCHANGED <<ui_pc, running, handlers, accepted, vars_udp, vars_h>>
    /\ ServerOnly

\* run_tcp_server 359-362: listen(100), settimeout(1.0)
accept_listen ==
    /\ acc_pc = "listen"
    /\ IF tcp_socket = "closed"
       THEN AcceptEnds("socket_closed") /\ UNCHANGED tcp_socket
       ELSE /\ tcp_socket' = "listening"
            /\ acc_pc' = "loop"
            /\ UNCHANGED acc_exit
    /\ UNCHANGED <<ui_pc, running, handlers, accepted, vars_udp, vars_h>>
    /\ ServerOnly

\* run_tcp_server 364: while self.running
accept_loop ==
    /\ acc_pc = "loop"
    /\ IF running
       THEN acc_pc' = "accept" /\ UNCHANGED acc_exit
       ELSE AcceptEnds("loop_end")
    /\ UNCHANGED <<ui_pc, running, tcp_socket, handlers, accepted, vars_udp, vars_h>>
    /\ ServerOnly

\* run_tcp_server 366, 371-375: accept() raises on a closed socket, times out
\* after 1 s, or returns a client connection
accept_accept ==
    /\ acc_pc = "accept"
    /\ IF tcp_socket = "closed"
       THEN acc_pc' = "loop" /\ UNCHANGED <<accepted, h_client>>
       ELSE \/ acc_pc' = "loop" /\ UNCHANGED <<accepted, h_client>>
            \/ /\ accepted < NumClients
               /\ accepted' = accepted + 1
               /\ h_client' = [h_client EXCEPT ![accepted + 1] = "open"]
               /\ acc_pc' = "spawn"
    /\ UNCHANGED <<ui_pc, running, tcp_socket, handlers, acc_exit, vars_udp, h_pc,
                   h_running, h_upstream, h_exit, h_opened>>
    /\ ServerOnly

\* run_tcp_server 367-369: TCPHandler(...) (running = True) and handler.start()
accept_spawn ==
    /\ acc_pc = "spawn"
    /\ h_pc' = [h_pc EXCEPT ![accepted] = "recv"]
    /\ h_running' = [h_running EXCEPT ![accepted] = TRUE]
    /\ acc_pc' = "append"
    /\ UNCHANGED <<ui_pc, running, tcp_socket, handlers, acc_exit, accepted, vars_udp,
                   h_client, h_upstream, h_exit, h_opened>>
    /\ ServerOnly

\* run_tcp_server 370: self.handlers.append(handler)
accept_append ==
    /\ acc_pc = "append"
    /\ handlers' = Append(handlers, accepted)
    /\ acc_pc' = "loop"
    /\ UNCHANGED <<ui_pc, running, tcp_socket, acc_exit, accepted, vars_udp, vars_h>>
    /\ ServerOnly

\* UDPHandler.stop 312-316 run to its end by the UDP thread itself, the only
\* thread that inserts into client_mapping: every session socket is closed
close_sessions ==
    up_sock' = [a \in Addrs |-> IF up_sock[a] = "none" THEN "none" ELSE "closed"]

\* UDPHandler.run 236-242, 255-258: socket and bind; a failed bind is logged
\* and the finally clause calls stop()
udp_bind ==
    /\ udp_pc = "bind"
    /\ \/ /\ udp_socket' = "open"
          /\ udp_pc' = "loop"
          /\ UNCHANGED <<udp_running, up_sock>>
       \/ /\ udp_running' = FALSE
          /\ udp_socket' = "closed"
          /\ close_sessions
          /\ udp_pc' = "done"
    /\ UNCHANGED <<ui_pc, running, tcp_socket, handlers, acc_pc, acc_exit, accepted,
                   map_keys, rcv_pc, udp_cur, it_used, it_pos, udp_created, udp_tasks,
                   udp_seen, udp_handled, vars_dgram, vars_h>>
    /\ ServerOnly

\* UDPHandler.run 244-258 when recvfrom gives no datagram: the loop comes
\* round on a timeout, an empty datagram or an error, and ends through the
\* finally clause and stop() once running is False
udp_loop ==
    /\ udp_pc = "loop"
    /\ IF udp_running
       THEN UNCHANGED <<udp_pc, udp_running, udp_socket, up_sock>>
       ELSE udp_stop_effect /\ close_sessions /\ udp_pc' = "done"
    /\ UNCHANGED <<ui_pc, running, tcp_socket, handlers, acc_pc, acc_exit, accepted,
                   map_keys, rcv_pc, udp_cur, it_used, it_pos, udp_created, udp_tasks,
                   udp_seen, udp_handled, vars_dgram, vars_h>>
    /\ ServerOnly

\* UDPHandler.run 244-248: with running True, recvfrom on the open socket
\* returns a datagram from the client address a; an empty one is passed over
\* (247)
udp_recvfrom ==
    /\ udp_pc = "loop"
    /\ udp_running
    /\ udp_socket = "open"
    /\ udp_handled + 1 <= MaxDatagrams
    /\ \E a \in Addrs : \E data \in {<<>>, ClientDatagram(a)} :
          IF data # <<>>
          THEN udp_cur' = a /\ udp_data' = data /\ udp_pc' = "handle"
          ELSE UNCHANGED <<udp_cur, udp_data, udp_pc>>
    /\ UNCHANGED <<ui_pc, running, tcp_socket, handlers, acc_pc, acc_exit, accepted,
                   udp_running, udp_socket, map_keys, up_sock, rcv_pc, it_used, it_pos,
                   udp_created, udp_tasks, udp_seen, udp_handled, up_sent, up_wait,
                   cli_got, vars_h>>
    /\ ServerOnly

\* a handler that opens a session for every datagram
every_datagram(client_addr) == TRUE

\* client_addr in self.client_mapping
in_mapping(client_addr) == \E i \in 1..Len(map_keys) : map_keys[i] = client_addr

\* handle_udp_packet 267: if client_addr not in self.client_mapping
new_session(client_addr) == ~in_mapping(client_addr)

\* a map that keeps the newest session only
newest_only(client_addr) == <<client_addr>>

\* handle_udp_packet 270: self.client_mapping[client_addr] = upstream; the keys
\* of the dict after the assignment
stored(client_addr) ==
    IF in_mapping(client_addr) THEN map_keys ELSE Append(map_keys, client_addr)

\* handle_udp_packet 280: upstream = self.client_mapping[client_addr]; a session
\* socket is named by the key it was stored under at 270
session_socket(client_addr) == client_addr

\* handle_udp_packet 260-290: for a new address an upstream socket is created,
\* stored under the address and its receive_upstream thread started; then the
\* datagram is sent to the upstream host and port on the address's socket (an
\* error of sendto, as on a socket stop() has closed, is logged)
handle_udp_packet ==
    /\ udp_pc = "handle"
    /\ IF new_session(udp_cur)
       THEN /\ udp_created' = udp_created + 1
            /\ up_sock' = [up_sock EXCEPT ![udp_cur] = "open"]
            /\ map_keys' = stored(udp_cur)
            /\ udp_tasks' = udp_tasks + 1
            /\ rcv_pc' = [rcv_pc EXCEPT ![udp_cur] = "loop"]
       ELSE UNCHANGED <<udp_created, up_sock, map_keys, udp_tasks, rcv_pc>>
    /\ \/ /\ up_sock'[session_socket(udp_cur)] = "open"
          /\ up_sent' = up_sent \cup {[sock |-> session_socket(udp_cur),
                                       data |-> udp_data,
                                       target |-> <<RelayCfg.host, RelayCfg.port>>]}
       \/ UNCHANGED up_sent
    /\ udp_seen' = udp_seen \cup {udp_cur}
    /\ udp_handled' = udp_handled + 1
    /\ udp_cur' = 0
    /\ udp_data' = <<>>
    /\ udp_pc' = "loop"
    /\ UNCHANGED <<ui_pc, running, tcp_socket, handlers, acc_pc, acc_exit, accepted,
                   udp_running, udp_socket, it_used, it_pos, up_wait, cli_got, vars_h>>
    /\ ServerOnly

\* a responder that answers whoever was served last
last_client(a) == map_keys[Len(map_keys)]

\* receive_upstream 297: client_addr, the argument bound at 275 when the
\* thread of the session of address a was created
reply_addr(a) == a

\* receive_upstream 292-302 for the session of address a: the loop ends when
\* running is False at its test or when recvfrom / sendto raises (closed
\* socket, network error); a timeout brings it round; a datagram read from the
\* session's socket is sent to client_addr on the shared socket when it is
\* not empty
receive_upstream(a) ==
    /\ rcv_pc[a] = "loop"
    /\ IF ~udp_running \/ up_sock[a] = "closed"
       THEN rcv_pc' = [rcv_pc EXCEPT ![a] = "done"] /\ UNCHANGED <<up_wait, cli_got>>
       ELSE \/ UNCHANGED <<rcv_pc, up_wait, cli_got>>
            \/ rcv_pc' = [rcv_pc EXCEPT ![a] = "done"] /\ UNCHANGED <<up_wait, cli_got>>
            \/ /\ up_wait[a] # <<>>
               /\ up_wait' = [up_wait EXCEPT ![a] = Tail(@)]
               /\ IF Head(up_wait[a]) = <<>>
                  THEN UNCHANGED <<rcv_pc, cli_got>>
                  ELSE IF udp_socket = "open"
                  THEN /\ cli_got' = cli_got \cup {[target |-> reply_addr(a),
                                                    data |-> Head(up_wait[a])]}
                       /\ UNCHANGED rcv_pc
                  ELSE /\ rcv_pc' = [rcv_pc EXCEPT ![a] = "done"]
                       /\ UNCHANGED cli_got
    /\ UNCHANGED <<ui_pc, running, tcp_socket, handlers, acc_pc, acc_exit, accepted,
                   udp_pc, udp_running, udp_socket, map_keys, up_sock, udp_cur, it_used,
                   it_pos, udp_created, udp_tasks, udp_seen, udp_handled, udp_data,
                   up_sent, vars_h>>
    /\ ServerOnly

\* the upstream answers a datagram it got from the session socket of address
\* a: its answer, or an empty datagram, arrives on that socket
upstream_reply(a) ==
    /\ up_sock[a] = "open"
    /\ \E m \in up_sent : m.sock = a
    /\ up_wait[a] = <<>>
    /\ \E data \in {<<>>, UpstreamDatagram(a)} :
          up_wait' = [up_wait EXCEPT ![a] = Append(@, data)]
    /\ UNCHANGED <<ui_pc, running, tcp_socket, handlers, acc_pc, acc_exit, accepted,
                   udp_pc, udp_running, udp_socket, map_keys, up_sock, rcv_pc, udp_cur,
                   it_used, it_pos, udp_created, udp_tasks, udp_seen, udp_handled,
                   udp_data, up_sent, cli_got, vars_h>>
    /\ ServerOnly

\* a cleanup that closes through shared references: every handler's sockets
cleanup_everyone(h) ==
    /\ h_client' = [g \in H |-> IF h_client[g] = "open" THEN "closed" ELSE h_client[g]]
    /\ h_upstream' = [g \in H |-> IF h_upstream[g] = "open" THEN "closed" ELSE h_upstream[g]]

\* TCPHandler.cleanup 201-211: this handler's client socket is closed, and its
\* upstream socket when one was opened
cleanup_sockets(h) ==
    /\ h_client' = [h_client EXCEPT ![h] = "closed"]
    /\ h_upstream' = [h_upstream EXCEPT ![h] = IF @ = "none" THEN "none" ELSE "closed"]

\* run() ends for the reason `why': the finally clause runs cleanup()
HandlerEnds(h, why) ==
    /\ h_pc' = [h_pc EXCEPT ![h] = "done"]
    /\ h_exit' = [h_exit EXCEPT ![h] = why]
    /\ cleanup_sockets(h)
    /\ UNCHANGED h_opened

\* the rest of the server, which no TCPHandler step touches
vars_owner == <<ui_pc, running, tcp_socket, handlers, acc_pc, acc_exit, accepted,
                vars_udp>>

\* run() 79-83, 98-99: the first read returns a request, b'', or raises
handler_recv(h) ==
    /\ h_pc[h] = "recv"
    /\ \/ /\ h_pc' = [h_pc EXCEPT ![h] = "connect"]
          /\ UNCHANGED <<h_client, h_upstream, h_exit, h_opened>>
       \/ \E why \in {"empty", "error"} : HandlerEnds(h, why)
    /\ UNCHANGED <<vars_owner, h_running>>
    /\ ServerOnly

\* an upstream connection taken from a pool of kept ones: none is opened
pooled_upstream(h) ==
    /\ h_upstream' = [h_upstream EXCEPT ![h] = "open"]
    /\ UNCHANGED h_opened

\* connect_to_upstream 55-58: a new socket is created and connected
open_upstream(h) ==
    /\ h_upstream' = [h_upstream EXCEPT ![h] = "open"]
    /\ h_opened' = [h_opened EXCEPT ![h] = @ + 1]

\* run() 86-88 and connect_to_upstream 52-61
handler_connect(h) ==
    /\ h_pc[h] = "connect"
    /\ \/ /\ h_pc' = [h_pc EXCEPT ![h] = "handshake"]
          /\ open_upstream(h)
          /\ UNCHANGED <<h_client, h_exit>>
       \/ HandlerEnds(h, "connect_failed")
    /\ UNCHANGED <<vars_owner, h_running>>
    /\ ServerOnly

\* run() 91-96 with handle_connect 105-143 or handle_http 147-168 up to the
\* pump: the rewritten request is sent; a CONNECT waits for the response;
\* an undecodable request line or an I/O error ends the handler ("error"), a
\* response without 200 is forwarded and ends it ("non200")
handler_handshake(h) ==
    /\ h_pc[h] = "handshake"
    /\ \/ /\ h_pc' = [h_pc EXCEPT ![h] = "pump"]
          /\ UNCHANGED <<h_client, h_upstream, h_exit, h_opened>>
       \/ \E why \in {"error", "non200"} : HandlerEnds(h, why)
    /\ UNCHANGED <<vars_owner, h_running>>
    /\ ServerOnly

\* a pump whose loop never looks at the flag
never_seen(h) == FALSE

\* bidirectional_forward 175: `while self.running' finds the flag cleared
shutdown_seen(h) == ~h_running[h]

\* bidirectional_forward 175-189: the loop test, select() and recv(); with
\* running False the loop ends; select may time out, report an exceptional
\* condition, or a readable socket whose recv gives data, b'' or an error
handler_pump_select(h) ==
    /\ h_pc[h] = "pump"
    /\ IF shutdown_seen(h)
       THEN HandlerEnds(h, "shutdown")
       ELSE \/ UNCHANGED <<h_pc, h_client, h_upstream, h_exit, h_opened>>
            \/ /\ h_pc' = [h_pc EXCEPT ![h] = "send"]
               /\ UNCHANGED <<h_client, h_upstream, h_exit, h_opened>>
            \/ \E why \in {"exceptional", "peer_closed", "io_error"} :
                  HandlerEnds(h, why)
    /\ UNCHANGED <<vars_owner, h_running>>
    /\ ServerOnly

\* bidirectional_forward 191-196: the bytes just read go to the other socket
\* with sendall; an exception (the peer is gone, or the non-blocking socket
\* would block) ends the handler
handler_pump_send(h) ==
    /\ h_pc[h] = "send"
    /\ \/ /\ h_pc' = [h_pc EXCEPT ![h] = "pump"]
          /\ UNCHANGED <<h_client, h_upstream, h_exit, h_opened>>
       \/ \E why \in {"io_error", "would_block"} : HandlerEnds(h, why)
    /\ UNCHANGED <<vars_owner, h_running>>
    /\ ServerOnly

Next ==
    \/ start \/ start_proxies_record
    \/ stop_flag \/ stop_close \/ stop_udp \/ stop_udp_iter \/ stop_mark
    \/ accept_socket \/ accept_bind \/ accept_listen
    \/ accept_loop \/ accept_accept \/ accept_spawn \/ accept_append
    \/ udp_bind \/ udp_loop
    \/ \E h \in H : handler_recv(h)
    \/ \E h \in H : handler_connect(h)
    \/ \E h \in H : handler_handshake(h)
    \/ \E h \in H : handler_pump_select(h)
    \/ \E h \in H : handler_pump_send(h)

\* the server with TCP clients and a caller that also asks is_running()
FlagNext == Next \/ is_running

\* the server with UDP clients and no TCP client: the caller, stop() and the
\* threads of the UDPHandler
UdpNext ==
    \/ start \/ start_proxies_record
    \/ stop_flag \/ stop_close \/ stop_udp \/ stop_udp_iter \/ stop_mark
    \/ udp_bind \/ udp_loop \/ udp_recvfrom \/ handle_udp_packet
    \/ \E a \in Addrs : receive_upstream(a)
    \/ \E a \in Addrs : upstream_reply(a)

(***************************************************************************)
(* Claims about the server (Spec)                                          *)
(***************************************************************************)
\* stop() is running: from its first assignment to its return
InStop == ui_pc \in {"stop_close", "stop_udp", "stop_udp_iter", "stop_mark"}

\* C5: after stop() has returned no client connection is accepted and no
\* TCPHandler is created or started, whatever the accept loop was doing when
\* stop() ran.
C5_NoHandlerAfterStop ==
    [][ui_pc = "stopped" =>
          /\ accepted' = accepted
          /\ \A h \in H : h_pc[h] = "unborn" => h_pc'[h] = "unborn"]_vars

\* C6: no step of stop() closes a socket of a TCPHandler or moves a handler;
\* the sockets of a running tunnel are closed only by the step that ends its
\* own pump, which is a peer close, an exceptional condition, an I/O error, or
\* the shutdown request seen at the loop test - and that last one never while
\* bytes read from one socket wait to be written to the other.
C6_StopLeavesTunnels ==
    [][/\ ((ui_pc = "recorded" \/ InStop) /\ ui_pc' # ui_pc) =>
              /\ h_client' = h_client /\ h_upstream' = h_upstream
              /\ h_pc' = h_pc /\ h_exit' = h_exit
       /\ \A h \in H :
              (h_pc[h] \in {"pump", "send"}
                   /\ (h_client'[h] # h_client[h] \/ h_upstream'[h] # h_upstream[h]
                       \/ h_pc'[h] \notin {"pump", "send"})) =>
                  /\ h_pc'[h] = "done"
                  /\ h_exit'[h] \in {"shutdown", "peer_closed", "exceptional",
                                     "io_error", "would_block"}
                  /\ h_exit'[h] = "shutdown" => (h_pc[h] = "pump" /\ ~h_running[h])
                  /\ h_pc[h] = "send" => h_exit'[h] \in {"io_error", "would_block"}
      ]_vars

\* C6's case: stop() has returned and marked a tunnel that still holds bytes
\* it read, with both of its sockets open
C6_Witness ==
    /\ ui_pc = "stopped"
    /\ \E h \in H : /\ h_pc[h] = "send" /\ ~h_running[h]
                    /\ h_client[h] = "open" /\ h_upstream[h] = "open"

\* C7: once the bind of the local TCP port has failed, the server is not
\* recorded as started by its caller and is_running() is not true.
C7_BindFailureSurfaced ==
    acc_exit = "bind_failed" => (~running /\ ui_pc # "recorded")

\* the lifecycle state of the server, read off the code's state: running with
\* no listener yet is Starting; not running while stop() or the accept thread
\* is still at work is Stopping
Phase ==
    IF running
    THEN (IF tcp_socket = "listening" THEN "Running" ELSE "Starting")
    ELSE (IF InStop \/ acc_pc \notin {"idle", "done"} THEN "Stopping" ELSE "Stopped")

\* C8: the server moves Stopped -> Starting -> Running -> Stopping -> Stopped
\* without skipping a state, and running is set only by start() and cleared
\* only by stop().
C8_Lifecycle ==
    [][/\ Phase = "Stopped" => Phase' \in {"Stopped", "Starting"}
       /\ Phase = "Starting" => Phase' \in {"Starting", "Running"}
       /\ Phase = "Running" => Phase' \in {"Running", "Stopping"}
       /\ Phase = "Stopping" => Phase' \in {"Stopping", "Stopped"}
       /\ (~running /\ running') => (ui_pc = "new" /\ ui_pc' = "started")
       /\ (running /\ ~running') => (ui_pc = "recorded" /\ ui_pc' = "stop_close")
      ]_vars

\* the part of C8 about the flag alone
C8_FlagWriters ==
    [][/\ (~running /\ running') => (ui_pc = "new" /\ ui_pc' = "started")
       /\ (running /\ ~running') => (ui_pc = "recorded" /\ ui_pc' = "stop_close")
      ]_vars

\* C9: once stop() has returned and the accept thread has finished, no socket
\* of the server is left bound to the local port or listening on it, also when
\* stop() was called before the accept thread had created or bound it.
C9_NoListenerLeft ==
    (ui_pc = "stopped" /\ acc_pc = "done") => tcp_socket \notin {"bound", "listening"}

\* the part of C5 about accept() alone: it returns no connection after stop()
C5_NoAcceptAfterStop ==
    [][ui_pc = "stopped" => accepted' = accepted]_vars

\* C10: the step in which a TCPHandler ends - for whatever reason - closes its
\* own two sockets and changes nothing else: not the server's flag, listening
\* socket, accept thread or handler list, not the UDP relay, not the caller,
\* and no other handler.
C10_FailureIsolation ==
    [][\A h \in H :
          (h_pc[h] \notin {"unborn", "done"} /\ h_pc'[h] = "done") =>
              /\ h_client'[h] = "closed"
              /\ h_upstream'[h] \in {"none", "closed"}
              /\ UNCHANGED <<ui_pc, running, tcp_socket, handlers, acc_pc, acc_exit,
                             accepted, udp_pc, udp_running, udp_socket, vars_sess>>
              /\ \A g \in H \ {h} :
                    /\ h_pc'[g] = h_pc[g] /\ h_running'[g] = h_running[g]
                    /\ h_client'[g] = h_client[g] /\ h_upstream'[g] = h_upstream[g]
                    /\ h_exit'[g] = h_exit[g]
      ]_vars

\* C10's case: one handler has failed (upstream unreachable) while another
\* one's tunnel is up and the server is still in accept()
C10_Witness ==
    /\ running /\ tcp_socket = "listening" /\ acc_pc = "accept"
    /\ \E h \in H, g \in H :
          /\ h # g
          /\ h_pc[h] = "done" /\ h_exit[h] = "connect_failed"
          /\ h_pc[g] = "pump" /\ h_client[g] = "open" /\ h_upstream[g] = "open"

\* C15: once stop() has returned and the accept thread has exited, every
\* TCPHandler the accept loop ever started has running = False.
C15_AllHandlersMarked ==
    (ui_pc = "stopped" /\ acc_pc = "done") =>
        \A h \in H : h_pc[h] # "unborn" => ~h_running[h]

\* stop() has been called: its first statement has cleared the flag
StopCalled == ui_pc \in {"stop_close", "stop_udp", "stop_udp_iter", "stop_mark",
                         "stopped", "stop_raised"}

\* C17: after stop() is called the accept loop and the UDP receive loop exit,
\* and so does the pump loop of every handler marked for shutdown; a loop
\* that tests its flag after it was cleared does not go round again.
C17_LoopsExit ==
    /\ StopCalled ~> (/\ ui_pc = "stopped" /\ acc_pc = "done" /\ udp_pc = "done"
                      /\ \A h \in H : ~h_running[h] => h_pc[h] \notin {"pump", "send"})
    /\ [][/\ (acc_pc = "loop" /\ ~running) => acc_pc' \in {"loop", "done"}
          /\ (udp_pc = "loop" /\ ~udp_running) => udp_pc' \in {"loop", "done"}
          /\ \A h \in H : (h_pc[h] = "pump" /\ ~h_running[h]) =>
                                h_pc'[h] \in {"pump", "done"}
         ]_vars

\* C17's case: after a stop both loops of the server have exited and a marked
\* handler has left its pump at the loop test
C17_Witness ==
    /\ ui_pc = "stopped" /\ acc_pc = "done" /\ udp_pc = "done"
    /\ \E h \in H : h_pc[h] = "done" /\ h_exit[h] = "shutdown"

\* C25: a step that changes ProxyServer.running is the first statement of
\* the caller's start() (which sets it) or of its stop() (which clears it), so
\* no step of the accept loop, of a TCPHandler or of the UDPHandler changes it,
\* whatever way that thread ends; and a call of is_running() returns the flag
\* and changes nothing else.
C25_OnlyOwnerWritesFlag ==
    [][/\ running' # running =>
             \/ ui_pc = "new" /\ ui_pc' = "started" /\ running'
             \/ ui_pc = "recorded" /\ ui_pc' = "stop_close" /\ ~running'
       /\ (acc_pc' # acc_pc /\ acc_pc # "idle") => running' = running
       /\ (udp_pc' # udp_pc /\ udp_pc # "idle") => running' = running
       /\ (h_pc' # h_pc \/ h_exit' # h_exit) => running' = running
       /\ ui_read' # ui_read =>
             /\ ui_read' = <<running>>
             /\ UNCHANGED <<ui_pc, running, tcp_socket, handlers, acc_pc, acc_exit,
                            accepted, vars_udp, vars_h>>
      ]_vars

\* C25's case: the accept thread has ended on a failed bind, the flag is
\* still set, and is_running() has returned it
C25_Witness ==
    /\ running
    /\ ui_read = <<TRUE>>
    /\ acc_pc = "done" /\ acc_exit = "bind_failed"

\* the same for the threads of the UDP relay with sessions: no step of the
\* receive loop, of handle_udp_packet or of a responder changes the flag
C25_UdpLeavesFlag ==
    [][(udp_pc' # udp_pc /\ udp_pc # "idle") \/ rcv_pc' # rcv_pc \/ up_sent' # up_sent
           \/ cli_got' # cli_got \/ map_keys' # map_keys
         => running' = running]_vars

\* C22: a TCPHandler opens at most one upstream connection; the upstream it
\* holds is one it opened itself; a step that opens or closes a handler's
\* upstream is a step of that handler and touches no other handler's; and no
\* handler that has ended holds an open upstream.
C22_NoPooling ==
    /\ [](\A h \in H :
            /\ h_opened[h] <= 1
            /\ h_upstream[h] # "none" <=> h_opened[h] = 1
            /\ h_pc[h] = "done" => h_upstream[h] # "open")
    /\ [][\A h \in H :
            h_upstream'[h] # h_upstream[h] =>
                /\ h_pc'[h] # h_pc[h]
                /\ \A g \in H \ {h} : h_upstream'[g] = h_upstream[g]]_vars

\* C22's case: one handler has ended after using its upstream, and another
\* one, started later, is pumping over its own
C22_Witness ==
    \E h \in H, g \in H :
        /\ h # g
        /\ h_pc[h] = "done" /\ h_exit[h] = "peer_closed" /\ h_upstream[h] = "closed"
        /\ h_pc[g] = "pump" /\ h_upstream[g] = "open"
        /\ h_opened[h] = 1 /\ h_opened[g] = 1

C24_MapOnlyGrows ==
    [][running =>
        /\ IsPrefix(map_keys, map_keys')
        /\ udp_created' # udp_created =>
              /\ Len(map_keys') = Len(map_keys) + 1
              /\ udp_created' = udp_created + 1
        /\ \A a \in Addrs : up_sock[a] # "none" => up_sock'[a] # "none"]_vars

\* C24's case: the server is running, every address has its entry, the
\* responder of one has ended, and that address was served again
C24_Witness ==
    /\ running
    /\ Len(map_keys) = NumAddrs
    /\ udp_handled > NumAddrs
    /\ \E a \in Addrs : rcv_pc[a] = "done" /\ in_mapping(a) /\ up_sock[a] = "open"

\* the part of C15 and C16 about stop() itself: it runs to its return
StopReturns == ui_pc # "stop_raised"

\* UDPHandler.stop() called by ProxyServer.stop() has returned
UdpStopReturned == ui_pc \in {"stop_mark", "stopped"}

\* C16: stop() completes also while the map is being modified; once
\* UDPHandler.stop() has returned no session socket is open, whether left
\* over or created afterwards; and once the receive loop has exited as well
\* the shared socket is closed too.
C16_UdpSocketsClosed ==
    /\ StopReturns
    /\ UdpStopReturned => \A a \in Addrs : up_sock[a] # "open"
    /\ (UdpStopReturned /\ udp_pc = "done") => udp_socket # "open"

\* the part of C16 the code keeps: when the receive loop has exited after a
\* stop, the shared socket and every session socket are closed
C16_ClosedAtExit ==
    (udp_pc = "done" /\ ui_pc \in {"stop_raised", "stop_mark", "stopped"}) =>
        /\ udp_socket # "open"
        /\ \A a \in Addrs : up_sock[a] # "open"

\* the part of C17 about the UDP side with sessions: after stop() is called
\* the receive loop and every responder exit, and a responder that tests the
\* flag after it was cleared does not go round again
C17_UdpLoopsExit ==
    /\ StopCalled ~> (udp_pc = "done" /\ \A a \in Addrs : rcv_pc[a] # "loop")
    /\ [][\A a \in Addrs : (rcv_pc[a] = "loop" /\ ~udp_running) =>
                                 rcv_pc'[a] \in {"loop", "done"}]_vars

(***************************************************************************)
(* SpecStart: parse_proxy_line and start_proxies (src/main.py).  A str is  *)
(* a sequence of one-character strings.                                    *)
(***************************************************************************)
\* the characters str.strip() removes that occur in the drawn lines
Whitespace == {" ", "\t"}

Digits == {"0", "1", "2", "3", "4", "5", "6", "7", "8", "9"}

DigitVal(c) ==
    CASE c = "0" -> 0 [] c = "1" -> 1 [] c = "2" -> 2 [] c = "3" -> 3 [] c = "4" -> 4
      [] c = "5" -> 5 [] c = "6" -> 6 [] c = "7" -> 7 [] c = "8" -> 8 [] c = "9" -> 9

RECURSIVE LStrip(_)
\* str.lstrip()
LStrip(s) == IF s # <<>> /\ Head(s) \in Whitespace THEN LStrip(Tail(s)) ELSE s

RECURSIVE RStrip(_)
\* str.rstrip()
RStrip(s) ==
    IF s # <<>> /\ s[Len(s)] \in Whitespace THEN RStrip(SubSeq(s, 1, Len(s) - 1)) ELSE s

\* str.strip()
Strip(s) == RStrip(LStrip(s))

RECURSIVE SplitOn(_, _)
\* str.split(sep) for a one-character sep: always at least one part
SplitOn(s, sep) ==
    IF \E i \in 1..Len(s) : s[i] = sep
    THEN LET i == CHOOSE k \in 1..Len(s) : s[k] = sep /\ \A j \in 1..(k - 1) : s[j] # sep
         IN  <<SubSeq(s, 1, i - 1)>> \o SplitOn(SubSeq(s, i + 1, Len(s)), sep)
    ELSE <<s>>

RECURSIVE JoinWith(_, _)
\* sep.join(parts)
JoinWith(parts, sep) ==
    IF parts = <<>> THEN <<>>
    ELSE IF Len(parts) = 1 THEN parts[1]
    ELSE parts[1] \o <<sep>> \o JoinWith(Tail(parts), sep)

RECURSIVE DigitsValue(_)
\* the number a run of decimal digits and underscores denotes
DigitsValue(s) ==
    IF s = <<>> THEN 0
    ELSE IF s[Len(s)] = "_" THEN DigitsValue(SubSeq(s, 1, Len(s) - 1))
    ELSE 10 * DigitsValue(SubSeq(s, 1, Len(s) - 1)) + DigitVal(s[Len(s)])

\* the digit part int() accepts: digits, with single underscores between digits
IsDigitRun(s) ==
    /\ s # <<>>
    /\ \A i \in 1..Len(s) : s[i] \in Digits \cup {"_"}
    /\ s[1] # "_" /\ s[Len(s)] # "_"
    /\ \A i \in 1..(Len(s) - 1) : ~(s[i] = "_" /\ s[i + 1] = "_")

\* int(port_str): surrounding whitespace and one sign are accepted; ok is
\* FALSE where int() raises ValueError
to_int(port_str) ==
    LET t    == Strip(port_str)
        sgn  == t # <<>> /\ Head(t) \in {"+", "-"}
        body == IF sgn THEN Tail(t) ELSE t
    IN  IF IsDigitRun(body)
        THEN [ok |-> TRUE,
              val |-> IF sgn /\ Head(t) = "-" THEN 0 - DigitsValue(body)
                      ELSE DigitsValue(body)]
        ELSE [ok |-> FALSE, val |-> 0]

\* the return value None
None == [none |-> TRUE]

\* ProxyConfig(host, port, username, password), src/proxy_server.py 19-23
ProxyConfig(host, port, username, password) ==
    [host |-> host, port |-> port, username |-> username, password |-> password]

\* a parser that takes the fourth field alone for the password
fourth_field(parts) == parts[4]

\* parse_proxy_line 291-298: the password is the fourth field, or with more
\* than four fields everything from the fourth on, joined with ':' again
password_of(parts) == JoinWith(SubSeq(parts, 4, Len(parts)), ":")

\* a parser that accepts every integer for the port
any_port(port) == TRUE

\* parse_proxy_line 306: 1 <= port <= 65535
valid_port(port) == 1 <= port /\ port <= 65535

\* parse_proxy_line 277-319
parse_proxy_line(proxy_str) ==
    LET str   == Strip(proxy_str)
        parts == SplitOn(str, ":")
        host     == parts[1]
        port_str == parts[2]
        username == parts[3]
        password == password_of(parts)
        port     == to_int(port_str)
    IN  IF str = <<>> THEN None
        ELSE IF Head(str) = "#" THEN None
        ELSE IF Len(parts) < 4 THEN None
        ELSE IF ~port.ok \/ ~valid_port(port.val) THEN None
        ELSE IF host = <<>> THEN None
        ELSE ProxyConfig(host, port.val, username, password)

RECURSIVE IntToStr(_)
\* str(n) for n >= 0
IntToStr(n) ==
    IF n < 10 THEN <<CHOOSE c \in Digits : DigitVal(c) = n>>
    ELSE IntToStr(n \div 10) \o <<CHOOSE c \in Digits : DigitVal(c) = n % 10>>

\* all sequences of 1..n elements of S
SeqsUpTo(S, n) == UNION {[1..k -> S] : k \in 1..n}

\* the fields a drawn line is made of: empty, a host, a comment sign, a valid
\* port, an invalid port, white space
FieldAlphabet == {<<>>, <<"h">>, <<"#">>, <<"8","0">>, <<"0">>, <<" ">>}

\* every line of 1..MaxFields such fields joined with ':'
FieldLines == {JoinWith(fs, ":") : fs \in SeqsUpTo(FieldAlphabet, MaxFields)}

\* what the port field of a four-field line may hold
PortStrings == {<<"1">>, <<"6","5","5","3","5">>, <<"6","5","5","3","6">>, <<"0">>, <<"-","1">>, <<"+","8","0">>, <<" ","8","0"," ">>, <<"8","x">>, <<"8","_","0">>, <<"_","8","0">>, <<>>, <<"9","9","9","9","9">>}

PortLines == {JoinWith(<<<<"h">>, ps, <<"u">>, <<"p">>>>, ":") : ps \in PortStrings}

\* the values a well-formed line is written from; passwords may hold ':'
Hosts == {<<"h">>, <<"h",".","x">>}
Ports == {1, 80, 65535}
Usernames == {<<"u">>, <<>>, <<"a"," ","b">>}
Passwords == {<<"p">>, <<>>, <<":">>, <<"a",":","b">>, <<"p",":">>, <<":","p">>,
              <<":",":">>, <<" ","p">>, <<"8","0">>}
Credentials ==
    {ProxyConfig(h, p, u, pw) : h \in Hosts, p \in Ports, u \in Usernames, pw \in Passwords}

\* host + ':' + port + ':' + username + ':' + password
LineOf(cfg) ==
    JoinWith(<<cfg.host, IntToStr(cfg.port), cfg.username, cfg.password>>, ":")

\* no original values: the line was not written from a credential
NoOrig == [none |-> TRUE]

\* parse_proxy_line was not called yet
NotCalled == [called |-> FALSE]

\* the lines of the text boxes that hold several upstreams
LineValid == <<"h",":","8","0",":","u",":","p">>
LineColonPw == <<"h",":","8","1",":","u",":","a",":","b">>
LineShort == <<"h",":","8","0",":","u">>
LineBadPort == <<"h",":","0",":","u",":","p">>
LineComment == <<"#","h",":","8","0",":","u",":","p">>
LineBlank == <<" ">>
SampleLines == {LineValid, LineColonPw, LineShort, LineBadPort, LineComment, LineBlank}

\* the integers typed into the starting-port entry
StartPorts == {1000, 1024, 65532, 65534, 65535}

\* the starting port of the text boxes that hold one line
DEFAULT_LOCAL_PORT == 30000

StartInit ==
    /\ sp_pc = "input"
    /\ \/ /\ sp_text \in {<<l>> : l \in FieldLines \cup PortLines}
          /\ sp_orig = NoOrig
          /\ sp_entry = DEFAULT_LOCAL_PORT
       \/ /\ sp_orig \in Credentials
          /\ sp_text = <<LineOf(sp_orig)>>
          /\ sp_entry = DEFAULT_LOCAL_PORT
       \/ /\ sp_text \in UNION {[1..k -> SampleLines] : k \in 0..MaxText}
          /\ sp_orig = NoOrig
          /\ sp_entry \in StartPorts
    /\ sp_out = NotCalled
    /\ sp_lines = <<>>
    /\ sp_i = 0
    /\ sp_port = 0
    /\ sp_servers = <<>>
    /\ sp_created = 0
    /\ sp_success = 0

\* a call parse_proxy_line(sp_text[1]) on the first line as it stands
parse_call ==
    /\ sp_pc = "input"
    /\ sp_text # <<>>
    /\ sp_out' = parse_proxy_line(sp_text[1])
    /\ sp_pc' = "parsed"
    /\ UNCHANGED <<sp_text, sp_orig, sp_entry, sp_lines, sp_i, sp_port, sp_servers,
                   sp_created, sp_success>>
    /\ StartOnly

\* start_proxies 325: line.strip() and not line.strip().startswith('#')
IsProxyLine(line) == Strip(line) # <<>> /\ Head(Strip(line)) # "#"

RECURSIVE proxy_lines(_)
\* start_proxies 325: the stripped lines that are neither blank nor comments
proxy_lines(text) ==
    IF text = <<>> THEN <<>>
    ELSE (IF IsProxyLine(Head(text)) THEN <<Strip(Head(text))>> ELSE <<>>)
         \o proxy_lines(Tail(text))

\* start_proxies 324-353: the lines are collected, the starting port and the
\* port range are checked, the previous servers are forgotten
start_proxies_begin ==
    /\ sp_pc = "parsed" \/ (sp_pc = "input" /\ sp_text = <<>>)
    /\ LET pl == proxy_lines(sp_text)
       IN  IF \/ pl = <<>>
              \/ ~(1024 <= sp_entry /\ sp_entry <= 65535)
              \/ sp_entry + Len(pl) > 65535
           THEN /\ sp_pc' = "rejected"
                /\ UNCHANGED <<sp_lines, sp_port, sp_servers, sp_success>>
           ELSE /\ sp_pc' = "loop"
                /\ sp_lines' = pl
                /\ sp_port' = sp_entry
                /\ sp_servers' = <<>>
                /\ sp_success' = 0
    /\ UNCHANGED <<sp_text, sp_orig, sp_entry, sp_out, sp_i, sp_created>>
    /\ StartOnly

\* a loop that leaves current_port where it is
same_port(current_port) == current_port

\* start_proxies 388, 393: current_port += 1
next_port(current_port) == current_port + 1

\* start_proxies 355-393: one round of the loop.  A line that does not parse
\* is skipped; otherwise a ProxyServer is constructed on current_port and
\* started, and either recorded (376) or, when start() raised, only logged;
\* current_port moves on in both cases (388, 393)
start_proxies_line ==
    /\ sp_pc = "loop"
    /\ sp_i < Len(sp_lines)
    /\ sp_i' = sp_i + 1
    /\ LET proxy_config == parse_proxy_line(sp_lines[sp_i + 1])
       IN  IF proxy_config = None
           THEN UNCHANGED <<sp_port, sp_servers, sp_created, sp_success>>
           ELSE /\ sp_created' = sp_created + 1
                /\ sp_port' = next_port(sp_port)
                /\ \/ /\ sp_servers' = Append(sp_servers,
                                [line |-> sp_i + 1, local_port |-> sp_port,
                                 proxy_config |-> proxy_config])
                      /\ sp_success' = sp_success + 1
                   \/ UNCHANGED <<sp_servers, sp_success>>
    /\ UNCHANGED <<sp_pc, sp_text, sp_orig, sp_entry, sp_out, sp_lines>>
    /\ StartOnly

\* start_proxies 395-410: the loop is over
start_proxies_end ==
    /\ sp_pc = "loop"
    /\ sp_i = Len(sp_lines)
    /\ sp_pc' = "done"
    /\ UNCHANGED <<sp_text, sp_orig, sp_entry, sp_out, sp_lines, sp_i, sp_port,
                   sp_servers, sp_created, sp_success>>
    /\ StartOnly

StartNext ==
    \/ parse_call \/ start_proxies_begin \/ start_proxies_line \/ start_proxies_end

BadPortFields ==
    {<<>>, <<" ">>, <<"h">>, <<"#">>, <<"0">>, <<"-","1">>, <<"8","x">>, <<"_","8","0">>,
     <<"6","5","5","3","6">>, <<"9","9","9","9","9">>}

\* the lines C13 says are rejected: blank, starting with '#', fewer than four
\* colon-separated fields, or a port field that is no integer in 1..65535
ClaimRejects(line) ==
    \/ \A i \in 1..Len(line) : line[i] \in Whitespace
    \/ (line # <<>> /\ line[1] = "#")
    \/ Len(SplitOn(line, ":")) < 4
    \/ SplitOn(line, ":")[2] \in BadPortFields

\* the lines of a text box that C13 does not say are rejected
Acceptable(text) == {i \in 1..Len(text) : ~ClaimRejects(text[i])}

\* C13: parse_proxy_line returns None for every such line, and start_proxies
\* constructs no ProxyServer, records none and moves current_port for none of
\* them: servers constructed, servers recorded and ports used never exceed
\* the lines of the text box that are not of that kind.
C13_RejectedLines ==
    /\ (sp_out # NotCalled /\ ClaimRejects(sp_text[1])) => sp_out = None
    /\ sp_pc \in {"loop", "done"} =>
          /\ sp_created <= Cardinality(Acceptable(sp_text))
          /\ Len(sp_servers) <= Cardinality(Acceptable(sp_text))
          /\ sp_port - sp_entry <= Cardinality(Acceptable(sp_text))
          /\ \A k \in 1..Len(sp_servers) : ~ClaimRejects(sp_lines[sp_servers[k].line])

\* C13's case: a text box with two good lines around a line with a port out
\* of range has been started: two ports were used
C13_Witness ==
    /\ sp_pc = "done"
    /\ sp_text = <<LineValid, LineBadPort, LineColonPw>>
    /\ sp_out # None
    /\ sp_port = sp_entry + 2

\* C14: after start_proxies every recorded ProxyServer belongs to a line of
\* its own that parsed and carries that line's credential; every parsed line
\* had one server constructed; the local ports of the recorded servers are
\* pairwise distinct and lie in start_port..65535.
C14_DistinctPorts ==
    sp_pc = "done" =>
        /\ \A k \in 1..Len(sp_servers) :
              /\ sp_servers[k].line \in 1..Len(sp_lines)
              /\ parse_proxy_line(sp_lines[sp_servers[k].line]) = sp_servers[k].proxy_config
              /\ sp_servers[k].proxy_config # None
              /\ sp_entry <= sp_servers[k].local_port
              /\ sp_servers[k].local_port <= 65535
        /\ \A j, k \in 1..Len(sp_servers) :
              j # k => /\ sp_servers[j].local_port # sp_servers[k].local_port
                       /\ sp_servers[j].line # sp_servers[k].line
        /\ sp_created = Cardinality({i \in 1..Len(sp_lines) :
                                        parse_proxy_line(sp_lines[i]) # None})
        /\ Len(sp_servers) = sp_success
        /\ sp_success <= sp_created

\* C14's case: three lines parsed, one server failed to start, two are
\* recorded, at the top of the port range
C14_Witness ==
    /\ sp_pc = "done"
    /\ Len(sp_lines) = MaxText
    /\ sp_created = MaxText
    /\ Len(sp_servers) = MaxText - 1
    /\ sp_port = 65535

(***************************************************************************)
(* The specifications.  Each one runs its own part of the state and leaves *)
(* the variables of the others at rest.                                    *)
(***************************************************************************)
RwIdle ==
    /\ rw_pc = "off" /\ rw_cfg = RelayCfg /\ rw_data = <<>>
    /\ rw_mode = "none" /\ rw_sent = <<>>

RelayIdle ==
    /\ r_pc = "off" /\ r_running = FALSE /\ r_data = <<>> /\ r_resp = NoResp
    /\ r_client = "closed" /\ r_upstream = "none" /\ r_todo = <<>> /\ r_hold = <<>>
    /\ r_pumped = FALSE /\ r_exit = "none" /\ r_log = {}
    /\ c_wr = 0 /\ c_in = <<>> /\ c_eof = FALSE /\ c_got = <<>>
    /\ u_wr = 0 /\ u_in = <<>> /\ u_eof = FALSE /\ u_got = <<>>

SrvIdle ==
    /\ ui_pc = "off" /\ ui_read = <<>> /\ running = FALSE /\ tcp_socket = "none" /\ handlers = <<>>
    /\ acc_pc = "idle" /\ acc_exit = "none" /\ accepted = 0
    /\ udp_pc = "idle" /\ udp_running = FALSE /\ udp_socket = "none"
    /\ SessInit
    /\ h_pc = [h \in H |-> "unborn"] /\ h_running = [h \in H |-> FALSE]
    /\ h_client = [h \in H |-> "none"] /\ h_upstream = [h \in H |-> "none"]
    /\ h_exit = [h \in H |-> "none"] /\ h_opened = [h \in H |-> 0]

SpIdle ==
    /\ sp_pc = "off" /\ sp_text = <<>> /\ sp_orig = NoOrig /\ sp_entry = 0
    /\ sp_out = NotCalled /\ sp_lines = <<>> /\ sp_i = 0 /\ sp_port = 0
    /\ sp_servers = <<>> /\ sp_created = 0 /\ sp_success = 0

InitRewrite == RwInit /\ RelayIdle /\ SrvIdle /\ SpIdle

InitRelay == RelayInit /\ RwIdle /\ SrvIdle /\ SpIdle

Init == SrvInit /\ RwIdle /\ RelayIdle /\ SpIdle

InitStart == StartInit /\ RwIdle /\ RelayIdle /\ SrvIdle

SpecRewrite == InitRewrite /\ [][RwNext]_vars

SpecRelay == InitRelay /\ [][RelayNext]_vars

Spec == Init /\ [][Next]_vars

SpecFlag == Init /\ [][FlagNext]_vars

SpecUdp == Init /\ [][UdpNext]_vars

\* Scheduling: a thread that can take a step eventually takes one.  stop(),
\* once called, runs on; the accept thread, the UDP thread, each responder
\* and each TCPHandler are threads of their own and every blocking call they
\* make carries a timeout (360, 240, 269, 79, 56, 177-180).  Nothing is
\* assumed of the user (start, stop) or of the peers.
FairStop == WF_vars(stop_close \/ stop_udp \/ stop_udp_iter \/ stop_mark)

FairAccept ==
    WF_vars(accept_socket \/ accept_bind \/ accept_listen \/ accept_loop
            \/ accept_accept \/ accept_spawn \/ accept_append)

FairUdp == WF_vars(udp_bind \/ udp_loop \/ handle_udp_packet)

FairResponders == \A a \in Addrs : WF_vars(receive_upstream(a))

FairHandlers ==
    \A h \in H : WF_vars(handler_recv(h) \/ handler_connect(h) \/ handler_handshake(h)
                          \/ handler_pump_select(h) \/ handler_pump_send(h))

SpecLive == Init /\ [][Next]_vars /\ FairStop /\ FairAccept /\ FairUdp /\ FairHandlers

SpecUdpLive == Init /\ [][UdpNext]_vars /\ FairStop /\ FairUdp /\ FairResponders

SpecStart == InitStart /\ [][StartNext]_vars

====
